---------------------------- MODULE Spec2Model ----------------------------
(***************************************************************************)
(* A model of the UE5-3DGS export plugin: the coordinate converter, the    *)
(* camera intrinsics and COLMAP writers, the PLY writer, the configuration *)
(* validation and the capture orchestrator's state machine.                *)
(*                                                                         *)
(* Each component has its own variables and its own specification; a       *)
(* component's specification leaves the other components' variables at     *)
(* their idle values.  Spec is the capture orchestrator.                   *)
(*                                                                         *)
(* Conventions                                                             *)
(*   - a double is idealised as an exact rational [n, d] kept in lowest    *)
(*     terms (IEEE rounding, of relative size 2^-53, is not modelled);     *)
(*   - a file name is a sequence of one-character strings, a printed       *)
(*     parameter list a sequence of pieces (numbers, blanks, words), a     *)
(*     directory path the sequence of its components;                      *)
(*   - floats of the splat, trajectory and capture configurations are      *)
(*     integers; a pointer is TRUE when it is not null;                    *)
(*   - a TArray<uint8> is a sequence of typed fields [t, v], the field's   *)
(*     byte width given by SizeOf(t).                                      *)
(***************************************************************************)
EXTENDS Integers, Sequences, FiniteSets, TLC

VARIABLES
    \* FCoordinateConverter (position conversion)
    UE5Position, ColmapPosition, RoundTrip, convPc,
    \* FCameraIntrinsics / FColmapWriter camera files
    Cameras, camData, camContent, camQuery,
    \* FPlyWriter (Gaussian splats)
    Splats, plyData, plyContent, plyEstimate,
    \* FPlyWriter: a PLY file written and read back
    Points, rdSplats, plyFile, plyOrigin, plyRead,
    \* FColmapWriter::CreateImagesFromViewpoints
    imgViewpoints, imgPrefix, imgExtension, Images, imgPc, imgFormatted,
    \* ValidateConfig of the orchestrator and of the trajectory generator
    valConfig, valResult, trajResult,
    \* FPlyWriter::ValidateSplats
    vsSplats, vsResult,
    \* FColmapWriter::WriteColmapDataset and the file system it writes to
    fsDirs, fsFiles, dsCall, dsCalls,
    \* UCaptureOrchestrator: its members
    CurrentState, CurrentViewpointIndex, Viewpoints, ActiveConfig, Result,
    CaptureWorld, SceneCaptureComponent, DepthCaptureComponent,
    ColorRenderTarget, DepthRenderTarget, CaptureTimerHandle,
    \* UCaptureOrchestrator: what it has done (files saved and exported,
    \* delegates broadcast, state assignments of the last call, the last call)
    SavedImages, ExportedImages, Broadcasts, Transitions, lastCall, crashed,
    \* FCameraTrajectoryGenerator: a configuration and the viewpoints generated
    \* from it, the inputs of CalculateOptimalConfig and its result
    genConfig, genResult, optInput, optResult,
    \* FDepthExtractor::CreateNPYHeader: its arguments and the bytes returned
    npyWidth, npyHeight, npyHeader,
    \* FDepthExtractor::SceneDepthToLinear: its arguments and its result
    SceneDepth, NearPlane, FarPlane, LinearDepth,
    \* FGaussianSplat colour conversion: a colour, SH DC coefficients, and the
    \* colour recovered from them
    shColor, shDC, shRecovered,
    \* FCoordinateConverter: an engine rotation, its COLMAP quaternion, and
    \* the rotation converted back
    UE5Rotation, ColmapQuat, RotationRoundTrip

convVars == <<UE5Position, ColmapPosition, RoundTrip, convPc>>
camVars == <<Cameras, camData, camContent, camQuery>>
plyVars == <<Splats, plyData, plyContent, plyEstimate>>
rdVars == <<Points, rdSplats, plyFile, plyOrigin, plyRead>>
imgVars == <<imgViewpoints, imgPrefix, imgExtension, Images, imgPc, imgFormatted>>
valVars == <<valConfig, valResult, trajResult>>
vsVars == <<vsSplats, vsResult>>
trajVars == <<genConfig, genResult, optInput, optResult>>
npyVars == <<npyWidth, npyHeight, npyHeader>>
depthVars == <<SceneDepth, NearPlane, FarPlane, LinearDepth>>
shVars == <<shColor, shDC, shRecovered>>
rotVars == <<UE5Rotation, ColmapQuat, RotationRoundTrip>>
dsVars == <<fsDirs, fsFiles, dsCall, dsCalls>>
orchVars ==
    <<CurrentState, CurrentViewpointIndex, Viewpoints, ActiveConfig, Result,
      CaptureWorld, SceneCaptureComponent, DepthCaptureComponent,
      ColorRenderTarget, DepthRenderTarget, CaptureTimerHandle,
      SavedImages, ExportedImages, Broadcasts, Transitions, lastCall, crashed>>

\* For each component, the variables of the other components.
convRest == <<camVars, plyVars, imgVars, valVars, dsVars, orchVars, rdVars, vsVars, trajVars, npyVars, depthVars, shVars, rotVars>>
camRest == <<convVars, plyVars, imgVars, valVars, dsVars, orchVars, rdVars, vsVars, trajVars, npyVars, depthVars, shVars, rotVars>>
plyRest == <<convVars, camVars, imgVars, valVars, dsVars, orchVars, rdVars, vsVars, trajVars, npyVars, depthVars, shVars, rotVars>>
imgRest == <<convVars, camVars, plyVars, valVars, dsVars, orchVars, rdVars, vsVars, trajVars, npyVars, depthVars, shVars, rotVars>>
valRest == <<convVars, camVars, plyVars, imgVars, dsVars, orchVars, rdVars, vsVars, trajVars, npyVars, depthVars, shVars, rotVars>>
dsRest == <<convVars, camVars, plyVars, imgVars, valVars, orchVars, rdVars, vsVars, trajVars, npyVars, depthVars, shVars, rotVars>>
rdRest == <<convVars, camVars, plyVars, imgVars, valVars, dsVars, orchVars, vsVars, trajVars, npyVars, depthVars, shVars, rotVars>>
vsRest == <<convVars, camVars, plyVars, imgVars, valVars, dsVars, orchVars, rdVars, trajVars, npyVars, depthVars, shVars, rotVars>>
trajRest == <<convVars, camVars, plyVars, imgVars, valVars, dsVars, orchVars, rdVars, vsVars, npyVars, depthVars, shVars, rotVars>>
npyRest == <<convVars, camVars, plyVars, imgVars, valVars, dsVars, orchVars, rdVars, vsVars, trajVars, depthVars, shVars, rotVars>>
depthRest == <<convVars, camVars, plyVars, imgVars, valVars, dsVars, orchVars, rdVars, vsVars, trajVars, npyVars, shVars, rotVars>>
shRest == <<convVars, camVars, plyVars, imgVars, valVars, dsVars, orchVars, rdVars, vsVars, trajVars, npyVars, depthVars, rotVars>>
rotRest == <<convVars, camVars, plyVars, imgVars, valVars, dsVars, orchVars, rdVars, vsVars, trajVars, npyVars, depthVars, shVars>>
orchRest == <<convVars, camVars, plyVars, imgVars, valVars, dsVars, rdVars, vsVars, trajVars, npyVars, depthVars, shVars, rotVars>>

vars == <<convVars, camVars, plyVars, imgVars, valVars, dsVars, orchVars, rdVars, vsVars, trajVars, npyVars, depthVars, shVars, rotVars>>

-----------------------------------------------------------------------------
(* Generic helpers *)

RECURSIVE SeqSum(_)
SeqSum(s) ==
    IF s = <<>> THEN 0
    ELSE IF Len(s) = 1 THEN s[1]
    ELSE LET mid == Len(s) \div 2
         IN  SeqSum(SubSeq(s, 1, mid)) + SeqSum(SubSeq(s, mid + 1, Len(s)))

RECURSIVE Flatten(_)
Flatten(ss) == IF ss = <<>> THEN <<>> ELSE Head(ss) \o Flatten(Tail(ss))

Abs(x) == IF x < 0 THEN -x ELSE x

RECURSIVE Gcd(_, _)
Gcd(a, b) == IF b = 0 THEN a ELSE Gcd(b, a % b)

\* Rationals in lowest terms with a positive denominator.
Rat(n, d) ==
    LET g == Gcd(Abs(n), Abs(d))
        s == IF d < 0 THEN -1 ELSE 1
    IN  [n |-> (s * n) \div g, d |-> (s * d) \div g]

RMul(a, b) == Rat(a.n * b.n, a.d * b.d)
RNeg(a) == [n |-> -a.n, d |-> a.d]
RSub(a, b) == Rat(a.n * b.d - b.n * a.d, a.d * b.d)
RLeq(a, b) == a.n * b.d <= b.n * a.d
RAbs(a) == [n |-> Abs(a.n), d |-> a.d]
RZero == Rat(0, 1)

FVector(x, y, z) == [X |-> x, Y |-> y, Z |-> z]

-----------------------------------------------------------------------------
(* FCoordinateConverter: positions *)

\* Largest multiple of the coordinate step used for the engine positions.
MaxCoord == 2

CmToMeters == Rat(1, 100)
MetersToCm == Rat(100, 1)

ConvertPositionToColmap_NoFlip(P) ==
    FVector(RMul(P.Y, CmToMeters), RMul(P.Z, CmToMeters), RMul(P.X, CmToMeters))

ConvertPositionToColmap(P) ==
    FVector(RMul(P.Y, CmToMeters),
            RMul(RNeg(P.Z), CmToMeters),
            RMul(P.X, CmToMeters))

ConvertPositionFromColmap_NoScale(C) ==
    FVector(C.Z, C.X, RNeg(C.Y))

ConvertPositionFromColmap(C) ==
    FVector(RMul(C.Z, MetersToCm),
            RMul(C.X, MetersToCm),
            RMul(RNeg(C.Y), MetersToCm))

\* Engine coordinates in centimetres: multiples of 123.45 cm and exactly 1 m.
Coords == {Rat(k * 12345, 100) : k \in -MaxCoord..MaxCoord} \cup {Rat(100, 1)}

NoVector == FVector(RZero, RZero, RZero)

ConvInit ==
    /\ UE5Position \in [X : Coords, Y : Coords, Z : Coords]
    /\ ColmapPosition = NoVector
    /\ RoundTrip = NoVector
    /\ convPc = "input"

ConvIdle ==
    /\ UE5Position = NoVector
    /\ ColmapPosition = NoVector
    /\ RoundTrip = NoVector
    /\ convPc = "idle"

ToColmap ==
    /\ convPc = "input"
    /\ ColmapPosition' = ConvertPositionToColmap(UE5Position)
    /\ convPc' = "colmap"
    /\ UNCHANGED <<UE5Position, RoundTrip>>

FromColmap ==
    /\ convPc = "colmap"
    /\ RoundTrip' = ConvertPositionFromColmap(ColmapPosition)
    /\ convPc' = "roundtrip"
    /\ UNCHANGED <<UE5Position, ColmapPosition>>

ConvNext ==
    \/ ToColmap /\ UNCHANGED convRest
    \/ FromColmap /\ UNCHANGED convRest

-----------------------------------------------------------------------------
(* FCameraIntrinsics and the camera files of FColmapWriter *)

\* Largest number of cameras handed to the camera writers.
MaxCameras == 2

\* EColmapCameraModel : uint8
SIMPLE_PINHOLE == 0
PINHOLE == 1
SIMPLE_RADIAL == 2
RADIAL == 3
OPENCV == 4
FULL_OPENCV == 6

EColmapCameraModel ==
    {SIMPLE_PINHOLE, PINHOLE, SIMPLE_RADIAL, RADIAL, OPENCV, FULL_OPENCV}

\* FString pieces produced by Printf: a formatted double, a literal word, a blank.
Fmt10f(v) == [k |-> "%.10f", v |-> v]
Blank == [k |-> " ", v |-> 0]
Word(w) == [k |-> w, v |-> 0]

\* Printf of a list of doubles with "%.10f" conversions separated by blanks.
RECURSIVE PrintfDoubles(_)
PrintfDoubles(args) ==
    IF args = <<>> THEN <<>>
    ELSE IF Len(args) = 1 THEN <<Fmt10f(Head(args))>>
    ELSE <<Fmt10f(Head(args)), Blank>> \o PrintfDoubles(Tail(args))

ZeroPadding == <<Blank, Word("0.0"), Blank, Word("0.0"), Blank, Word("0.0"), Blank, Word("0.0")>>

GetColmapParamsString_NoPadding(I) ==
    IF I.CameraModel = SIMPLE_PINHOLE
    THEN PrintfDoubles(<<I.FocalLengthX, I.PrincipalPointX, I.PrincipalPointY>>)
    ELSE IF I.CameraModel = PINHOLE
    THEN PrintfDoubles(<<I.FocalLengthX, I.FocalLengthY, I.PrincipalPointX, I.PrincipalPointY>>)
    ELSE IF I.CameraModel = SIMPLE_RADIAL
    THEN PrintfDoubles(<<I.FocalLengthX, I.PrincipalPointX, I.PrincipalPointY, I.K1>>)
    ELSE IF I.CameraModel = RADIAL
    THEN PrintfDoubles(<<I.FocalLengthX, I.PrincipalPointX, I.PrincipalPointY, I.K1, I.K2>>)
    ELSE PrintfDoubles(<<I.FocalLengthX, I.FocalLengthY, I.PrincipalPointX, I.PrincipalPointY,
                         I.K1, I.K2, I.P1, I.P2>>)

GetColmapParamsString(I) ==
    IF I.CameraModel = SIMPLE_PINHOLE
    THEN PrintfDoubles(<<I.FocalLengthX, I.PrincipalPointX, I.PrincipalPointY>>)
    ELSE IF I.CameraModel = PINHOLE
    THEN PrintfDoubles(<<I.FocalLengthX, I.FocalLengthY, I.PrincipalPointX, I.PrincipalPointY>>)
    ELSE IF I.CameraModel = SIMPLE_RADIAL
    THEN PrintfDoubles(<<I.FocalLengthX, I.PrincipalPointX, I.PrincipalPointY, I.K1>>)
    ELSE IF I.CameraModel = RADIAL
    THEN PrintfDoubles(<<I.FocalLengthX, I.PrincipalPointX, I.PrincipalPointY, I.K1, I.K2>>)
    ELSE IF I.CameraModel = OPENCV
    THEN PrintfDoubles(<<I.FocalLengthX, I.FocalLengthY, I.PrincipalPointX, I.PrincipalPointY,
                         I.K1, I.K2, I.P1, I.P2>>)
    ELSE PrintfDoubles(<<I.FocalLengthX, I.FocalLengthY, I.PrincipalPointX, I.PrincipalPointY,
                         I.K1, I.K2, I.P1, I.P2>>) \o ZeroPadding

\* static_cast<int32>(CameraModel)
GetColmapModelId(I) == I.CameraModel

GetColmapModelName(I) ==
    CASE I.CameraModel = SIMPLE_PINHOLE -> "SIMPLE_PINHOLE"
      [] I.CameraModel = PINHOLE -> "PINHOLE"
      [] I.CameraModel = SIMPLE_RADIAL -> "SIMPLE_RADIAL"
      [] I.CameraModel = RADIAL -> "RADIAL"
      [] I.CameraModel = OPENCV -> "OPENCV"
      [] I.CameraModel = FULL_OPENCV -> "FULL_OPENCV"
      [] OTHER -> "UNKNOWN"

\* FString::ParseIntoArray(Out, TEXT(" "), true): the blank-separated pieces.
ParseIntoArray(str) == SelectSeq(str, LAMBDA p : p # Blank)

\* Byte widths of the fields appended to a TArray<uint8>.
SizeOf(t) ==
    CASE t = "u8" -> 1
      [] t = "u32" -> 4
      [] t = "i32" -> 4
      [] t = "f32" -> 4
      [] t = "u64" -> 8
      [] t = "f64" -> 8
      [] OTHER -> 0

Field(t, v) == [t |-> t, v |-> v]

ByteSize(data) == SeqSum([i \in 1..Len(data) |-> SizeOf(data[i].t)])

Doubles(vals) == [i \in 1..Len(vals) |-> Field("f64", vals[i])]

\* The switch of WriteCamerasBinary: the parameter vector written for a camera.
BinaryParams(I) ==
    IF I.CameraModel = SIMPLE_PINHOLE
    THEN <<I.FocalLengthX, I.PrincipalPointX, I.PrincipalPointY>>
    ELSE IF I.CameraModel = PINHOLE
    THEN <<I.FocalLengthX, I.FocalLengthY, I.PrincipalPointX, I.PrincipalPointY>>
    ELSE IF I.CameraModel = OPENCV
    THEN <<I.FocalLengthX, I.FocalLengthY, I.PrincipalPointX, I.PrincipalPointY,
           I.K1, I.K2, I.P1, I.P2>>
    ELSE <<I.FocalLengthX, I.FocalLengthY, I.PrincipalPointX, I.PrincipalPointY>>

CameraRecordBinary(Cam) ==
    <<Field("u32", Cam.CameraId),
      Field("i32", GetColmapModelId(Cam.Intrinsics)),
      Field("u64", Cam.Intrinsics.Width),
      Field("u64", Cam.Intrinsics.Height)>>
    \o Doubles(BinaryParams(Cam.Intrinsics))

WriteCamerasBinary(Cams) ==
    <<Field("u64", Len(Cams))>>
    \o Flatten([i \in 1..Len(Cams) |-> CameraRecordBinary(Cams[i])])

\* One line of cameras.txt: "%d %s %d %d %s\n"
CameraLineText(Cam) ==
    [CameraId |-> Cam.CameraId,
     Model |-> GetColmapModelName(Cam.Intrinsics),
     Width |-> Cam.Intrinsics.Width,
     Height |-> Cam.Intrinsics.Height,
     Params |-> GetColmapParamsString(Cam.Intrinsics)]

WriteCamerasText(Cams) ==
    [NumCameras |-> Len(Cams),
     Lines |-> [i \in 1..Len(Cams) |-> CameraLineText(Cams[i])]]

Intrinsics(model, fy, k1) ==
    [Width |-> 1920, Height |-> 1080,
     FocalLengthX |-> 960, FocalLengthY |-> fy,
     PrincipalPointX |-> 955, PrincipalPointY |-> 540,
     K1 |-> k1, K2 |-> 2, P1 |-> 3, P2 |-> 4,
     CameraModel |-> model]

IntrinsicsInputs ==
    {Intrinsics(m, fy, k1) : m \in EColmapCameraModel, fy \in {960, 970}, k1 \in {0, 1}}

ColmapCamera(id, I) == [CameraId |-> id, Intrinsics |-> I]

CameraLists ==
    UNION {[1..n -> {ColmapCamera(1, I) : I \in IntrinsicsInputs}] : n \in 0..MaxCameras}

NoQuery == [Index |-> 0, ModelId |-> -1, ModelName |-> "", Params |-> <<>>]
NoContent == [NumCameras |-> 0, Lines |-> <<>>]

CamInit ==
    /\ Cameras \in CameraLists
    /\ camData = <<>>
    /\ camContent = NoContent
    /\ camQuery = NoQuery

CamIdle ==
    /\ Cameras = <<>>
    /\ camData = <<>>
    /\ camContent = NoContent
    /\ camQuery = NoQuery

WriteCamerasBinaryAct ==
    /\ camData = <<>>
    /\ camData' = WriteCamerasBinary(Cameras)
    /\ UNCHANGED <<Cameras, camContent, camQuery>>

WriteCamerasTextAct ==
    /\ camContent = NoContent
    /\ Cameras # <<>>
    /\ camContent' = WriteCamerasText(Cameras)
    /\ UNCHANGED <<Cameras, camData, camQuery>>

\* The three accessors, as the compliance test calls them on one camera.
QueryCameraModel ==
    /\ camQuery = NoQuery
    /\ \E i \in 1..Len(Cameras) :
          camQuery' = [Index |-> i,
                       ModelId |-> GetColmapModelId(Cameras[i].Intrinsics),
                       ModelName |-> GetColmapModelName(Cameras[i].Intrinsics),
                       Params |-> GetColmapParamsString(Cameras[i].Intrinsics)]
    /\ UNCHANGED <<Cameras, camData, camContent>>

CamNext ==
    \/ WriteCamerasBinaryAct /\ UNCHANGED camRest
    \/ WriteCamerasTextAct /\ UNCHANGED camRest
    \/ QueryCameraModel /\ UNCHANGED camRest

-----------------------------------------------------------------------------
(* FPlyWriter: Gaussian splat files *)

\* Largest number of splats handed to the splat writers.
MaxSplats == 2

\* Number of higher-order SH coefficients per splat (f_rest_0 .. f_rest_44).
NumRestSH == 45

\* The per-splat byte count EstimateMemoryUsage multiplies by.
EstimateBytesPerSplat == 236

\* int64 values are four 16-bit limbs, least significant first.
Limb == 2^16

\* static_cast<int64>(n) of a non-negative int32
ToInt64(n) == <<n % Limb, (n \div Limb) % Limb, 0, 0>>

\* limbs * k modulo 2^64 (the carry out of the top limb is dropped)
RECURSIVE MulInt64(_, _, _)
MulInt64(limbs, k, carry) ==
    IF limbs = <<>> THEN <<>>
    ELSE LET p == Head(limbs) * k + carry
         IN  <<p % Limb>> \o MulInt64(Tail(limbs), k, p \div Limb)

EstimateMemoryUsage(NumSplats) ==
    MulInt64(ToInt64(NumSplats), EstimateBytesPerSplat, 0)

\* One line of a PLY header: its blank-separated words, and the argument of
\* the "%d" that ends the line (-1: the line has none).  The number is printed
\* right after the last word: "element vertex %d" has the empty last word "",
\* "property float f_rest_%d" the last word "f_rest_".
HeaderLine(words, n) == [words |-> words, n |-> n]

Property(name) == HeaderLine(<<"property", "float", name>>, -1)

GenerateGaussianHeader(NumSplats, bBinary) ==
    <<HeaderLine(<<"ply">>, -1),
      HeaderLine(IF bBinary THEN <<"format", "binary_little_endian", "1.0">>
                            ELSE <<"format", "ascii", "1.0">>, -1),
      HeaderLine(<<"element", "vertex", "">>, NumSplats),
      Property("x"), Property("y"), Property("z"),
      Property("nx"), Property("ny"), Property("nz"),
      Property("f_dc_0"), Property("f_dc_1"), Property("f_dc_2")>>
    \o [i \in 1..NumRestSH |-> HeaderLine(<<"property", "float", "f_rest_">>, i - 1)]
    \o <<Property("opacity"),
         Property("scale_0"), Property("scale_1"), Property("scale_2"),
         Property("rot_0"), Property("rot_1"), Property("rot_2"), Property("rot_3"),
         HeaderLine(<<"end_header">>, -1)>>

\* (i < Splat.SH_Rest.Num()) ? Splat.SH_Rest[i] : 0.0f, for i = 0 .. 44
RestSHValues(Splat) ==
    [i \in 1..NumRestSH |-> IF i <= Len(Splat.SH_Rest) THEN Splat.SH_Rest[i] ELSE 0]

\* The values of one splat in writing order.
SplatValues(Splat) ==
    <<Splat.Position.X, Splat.Position.Y, Splat.Position.Z,
      Splat.Normal.X, Splat.Normal.Y, Splat.Normal.Z,
      Splat.SH_DC.X, Splat.SH_DC.Y, Splat.SH_DC.Z>>
    \o RestSHValues(Splat)
    \o <<Splat.Opacity,
         Splat.Scale.X, Splat.Scale.Y, Splat.Scale.Z,
         Splat.Rotation.X, Splat.Rotation.Y, Splat.Rotation.Z, Splat.Rotation.W>>

Floats(vals) == [i \in 1..Len(vals) |-> Field("f32", vals[i])]

\* The file of WriteGaussianBinary: the header text, then the appended floats.
WriteGaussianBinary(S) ==
    [Header |-> GenerateGaussianHeader(Len(S), TRUE),
     Payload |-> Flatten([i \in 1..Len(S) |-> Floats(SplatValues(S[i]))])]

\* The file of WriteGaussianASCII: the header, then one "%.6f" line per splat.
WriteGaussianASCII(S) ==
    [Header |-> GenerateGaussianHeader(Len(S), FALSE),
     Lines |-> [i \in 1..Len(S) |-> SplatValues(S[i])]]

GaussianSplat(pos, rest, opacity) ==
    [Position |-> pos,
     Normal |-> FVector(0, 0, 1),
     SH_DC |-> FVector(5, 5, 5),
     SH_Rest |-> rest,
     Opacity |-> opacity,
     Scale |-> FVector(-5, -5, -5),
     Rotation |-> [X |-> 0, Y |-> 0, Z |-> 0, W |-> 1]]

SplatInputs ==
    {GaussianSplat(pos, rest, op) :
        pos \in {FVector(0, 0, 0), FVector(1, 2, 3)},
        rest \in {<<>>, [i \in 1..NumRestSH |-> 0], [i \in 1..NumRestSH |-> i]},
        op \in {0, 1}}

SplatLists == UNION {[1..n -> SplatInputs] : n \in 0..MaxSplats}

\* Splat counts handed to EstimateMemoryUsage; the last is the largest int32.
EstimateInputs == {0, 1, 100000, 1000000, 9099507, 9099508, 2147483647}

NoBinary == [Header |-> <<>>, Payload |-> <<>>]
NoASCII == [Header |-> <<>>, Lines |-> <<>>]
NoEstimate == [NumSplats |-> -1, Bytes |-> <<>>]

PlyInit ==
    /\ Splats \in SplatLists
    /\ plyData = NoBinary
    /\ plyContent = NoASCII
    /\ plyEstimate = NoEstimate

PlyIdle ==
    /\ Splats = <<>>
    /\ plyData = NoBinary
    /\ plyContent = NoASCII
    /\ plyEstimate = NoEstimate

\* WriteGaussianSplats(.., bBinary = true): refuses an empty array.
WriteGaussianBinaryAct ==
    /\ plyData = NoBinary
    /\ Splats # <<>>
    /\ plyData' = WriteGaussianBinary(Splats)
    /\ UNCHANGED <<Splats, plyContent, plyEstimate>>

\* WriteGaussianSplats(.., bBinary = false)
WriteGaussianASCIIAct ==
    /\ plyContent = NoASCII
    /\ Splats # <<>>
    /\ plyContent' = WriteGaussianASCII(Splats)
    /\ UNCHANGED <<Splats, plyData, plyEstimate>>

EstimateMemoryUsageAct ==
    /\ plyEstimate = NoEstimate
    /\ \E n \in EstimateInputs \cup {Len(Splats)} :
          plyEstimate' = [NumSplats |-> n, Bytes |-> EstimateMemoryUsage(n)]
    /\ UNCHANGED <<Splats, plyData, plyContent>>

PlyNext ==
    \/ WriteGaussianBinaryAct /\ UNCHANGED plyRest
    \/ WriteGaussianASCIIAct /\ UNCHANGED plyRest
    \/ EstimateMemoryUsageAct /\ UNCHANGED plyRest

-----------------------------------------------------------------------------
(* FPlyWriter: point-cloud files, and reading PLY files back *)

\* Longest point list and longest splat list written to a file.
MaxPoints == 2

\* A double is a dyadic rational [n, d].  Number of bits of a natural number.
RECURSIVE BitLen(_)
BitLen(n) == IF n = 0 THEN 0 ELSE 1 + BitLen(n \div 2)

\* num / den rounded to the nearest integer, ties to even.
RoundHalfEven(num, den) ==
    LET q == num \div den
        r == num % den
    IN  IF 2 * r > den \/ (2 * r = den /\ q % 2 = 1) THEN q + 1 ELSE q

Sign(x) == IF x < 0 THEN -1 ELSE 1

\* float X = Point.Position.X: a float keeps 24 significant bits.
ToFloat32(r) ==
    LET m == Abs(r.n)
        drop == BitLen(m) - 24
    IN  IF drop <= 0 THEN r
        ELSE Rat(Sign(r.n) * RoundHalfEven(m, 2^drop) * 2^drop, r.d)

\* Printf("%.6f", v): the decimal with six fractional digits nearest to v.
Fmt6f(r) ==
    LET m == Abs(r.n)
        micro == (m \div r.d) * 10^6 + RoundHalfEven((m % r.d) * 10^6, r.d)
    IN  [k |-> "%.6f", v |-> Rat(Sign(r.n) * micro, 10^6)]

\* Printf("%d", c)
FmtD(c) == [k |-> "%d", v |-> Rat(c, 1)]

\* FCString::Atof and FCString::Atoi of one blank-separated value.
Atof(piece) == piece.v
AtoiValue(piece) == Sign(piece.v.n) * (Abs(piece.v.n) \div piece.v.d)

FColor(r, g, b) == [R |-> r, G |-> g, B |-> b]

FPointCloudPoint(pos, normal, color) ==
    [Position |-> pos, Normal |-> normal, Color |-> color]

\* A default-constructed FPointCloudPoint.
DefaultPoint ==
    FPointCloudPoint(FVector(RZero, RZero, RZero),
                     FVector(RZero, RZero, Rat(1, 1)),
                     FColor(255, 255, 255))

\* A file: the header lines, each ended by the line terminator Eol, then the
\* bytes of a binary payload or the lines of an ASCII payload.
PlyFile(header, eol, payload, lines) ==
    [Header |-> header, Eol |-> eol, Payload |-> payload, Lines |-> lines]

UcharProperty(name) == HeaderLine(<<"property", "uchar", name>>, -1)

GeneratePointCloudHeader(NumPoints, bBinary) ==
    <<HeaderLine(<<"ply">>, -1),
      HeaderLine(IF bBinary THEN <<"format", "binary_little_endian", "1.0">>
                            ELSE <<"format", "ascii", "1.0">>, -1),
      HeaderLine(<<"element", "vertex", "">>, NumPoints),
      Property("x"), Property("y"), Property("z"),
      Property("nx"), Property("ny"), Property("nz"),
      UcharProperty("red"), UcharProperty("green"), UcharProperty("blue"),
      HeaderLine(<<"end_header">>, -1)>>

\* The 27 bytes appended for one point.
PointRecordBinary(Point) ==
    <<Field("f32", ToFloat32(Point.Position.X)),
      Field("f32", ToFloat32(Point.Position.Y)),
      Field("f32", ToFloat32(Point.Position.Z)),
      Field("f32", ToFloat32(Point.Normal.X)),
      Field("f32", ToFloat32(Point.Normal.Y)),
      Field("f32", ToFloat32(Point.Normal.Z)),
      Field("u8", Rat(Point.Color.R, 1)),
      Field("u8", Rat(Point.Color.G, 1)),
      Field("u8", Rat(Point.Color.B, 1))>>

WritePointCloudBinary(P) ==
    PlyFile(GeneratePointCloudHeader(Len(P), TRUE), <<"\n">>,
            Flatten([i \in 1..Len(P) |-> PointRecordBinary(P[i])]), <<>>)

\* "%.6f %.6f %.6f %.6f %.6f %.6f %d %d %d\n"
PointLineASCII(Point) ==
    <<Fmt6f(Point.Position.X), Fmt6f(Point.Position.Y), Fmt6f(Point.Position.Z),
      Fmt6f(Point.Normal.X), Fmt6f(Point.Normal.Y), Fmt6f(Point.Normal.Z),
      FmtD(Point.Color.R), FmtD(Point.Color.G), FmtD(Point.Color.B)>>

WritePointCloudASCII(P) ==
    PlyFile(GeneratePointCloudHeader(Len(P), FALSE), <<"\n">>,
            <<>>, [i \in 1..Len(P) |-> PointLineASCII(P[i])])

\* Points.Num() > 0 is the caller's guard in the action below.
WritePointCloud(P, bBinary) ==
    IF bBinary THEN WritePointCloudBinary(P) ELSE WritePointCloudASCII(P)

\* The file WriteGaussianSplats leaves at FilePath, its values as doubles.
GaussianFile(S, bBinary) ==
    IF bBinary
    THEN LET data == WriteGaussianBinary(S)
         IN  PlyFile(data.Header, <<"\n">>,
                     [j \in 1..Len(data.Payload) |-> Field("f32", Rat(data.Payload[j].v, 1))],
                     <<>>)
    ELSE LET content == WriteGaussianASCII(S)
         IN  PlyFile(content.Header, <<"\n">>, <<>>,
                     [i \in 1..Len(content.Lines) |->
                         [j \in 1..Len(content.Lines[i]) |->
                             Fmt6f(Rat(content.Lines[i][j], 1))]])

\* Line.ParseIntoArray(Parts, TEXT(" ")): the words, the last one with the number.
Parts(Line) ==
    [i \in 1..Len(Line.words) |->
        [text |-> Line.words[i], n |-> IF i = Len(Line.words) THEN Line.n ELSE -1]]

\* Line.StartsWith of a text made of whole words.
StartsWith(Line, prefix) ==
    /\ Len(Line.words) >= Len(prefix)
    /\ SubSeq(Line.words, 1, Len(prefix)) = prefix

\* Line.Contains(TEXT("binary"))
ContainsBinary(Line) ==
    \E i \in 1..Len(Line.words) :
        Line.words[i] \in {"binary", "binary_little_endian", "binary_big_endian"}

\* FCString::Atoi of a header word: 0 unless the word is a number.
Atoi(part) == IF part.text = "" /\ part.n >= 0 THEN part.n ELSE 0

PropertyName(name) == [text |-> name, n |-> -1]

Contains(Properties, name) ==
    \E i \in 1..Len(Properties) : Properties[i] = PropertyName(name)

\* The branch of ParsePlyHeader's if / else-if chain a line takes.
LineKind(Line) ==
    IF ContainsBinary(Line) THEN "binary"
    ELSE IF StartsWith(Line, <<"element", "vertex">>) THEN "element vertex"
    ELSE IF StartsWith(Line, <<"property">>) THEN "property"
    ELSE IF StartsWith(Line, <<"end_header">>) THEN "end_header"
    ELSE "other"

\* ParsePlyHeader: the loop runs over the lines before the first one that
\* takes the "end_header" branch; the last vertex count assigned stays.
ParsePlyHeader(Content) ==
    LET Lines == Content.Header
        ends == {i \in 1..Len(Lines) : LineKind(Lines[i]) = "end_header"}
        stop == IF ends = {} THEN Len(Lines) + 1
                ELSE CHOOSE i \in ends : \A j \in ends : i <= j
        seen == SubSeq(Lines, 1, stop - 1)
        counts == SelectSeq(seen, LAMBDA Line :
                      LineKind(Line) = "element vertex" /\ Len(Parts(Line)) >= 3)
        props == SelectSeq(seen, LAMBDA Line :
                      LineKind(Line) = "property" /\ Len(Parts(Line)) >= 3)
        OutNumVertices == IF counts = <<>> THEN 0 ELSE Atoi(Parts(counts[Len(counts)])[3])
    IN  IF Lines = <<>> \/ ~StartsWith(Lines[1], <<"ply">>)
        THEN [ret |-> FALSE, OutNumVertices |-> 0, OutIsBinary |-> FALSE,
              OutProperties |-> <<>>]
        ELSE [ret |-> OutNumVertices > 0,
              OutNumVertices |-> OutNumVertices,
              OutIsBinary |-> \E i \in 1..Len(seen) : LineKind(seen[i]) = "binary",
              OutProperties |-> [i \in 1..Len(props) |-> Parts(props[i])[Len(props[i].words)]]]

\* FileContent.Find(TEXT("end_header")) != INDEX_NONE
HasEndHeader(File) ==
    \E i \in 1..Len(File.Header) :
        \E j \in 1..Len(File.Header[i].words) : File.Header[i].words[j] = "end_header"

\* int32 DataStart = EndHeaderPos + 11, advanced while the byte before it is
\* not '\n'.  pos is DataStart - EndHeaderPos, num is FileData.Num() -
\* EndHeaderPos; "end_header" has 10 characters and File.Eol follows it.
RECURSIVE SkipToLineEnd(_, _, _)
SkipToLineEnd(File, pos, num) ==
    IF pos < num /\ ~(pos - 10 <= Len(File.Eol) /\ File.Eol[pos - 10] = "\n")
    THEN SkipToLineEnd(File, pos + 1, num)
    ELSE pos

\* DataStart as an offset into the payload (0: its first byte).
DataStart(File) ==
    SkipToLineEnd(File, 11, 10 + Len(File.Eol) + ByteSize(File.Payload))
        - (10 + Len(File.Eol))

PointLayout_IgnoresNormals(Properties) ==
    <<"f32", "f32", "f32">>
    \o (IF Contains(Properties, "red") THEN <<"u8", "u8", "u8">> ELSE <<>>)

\* The types read for one point, in reading order.
PointLayout(Properties) ==
    <<"f32", "f32", "f32">>
    \o (IF Contains(Properties, "nx") THEN <<"f32", "f32", "f32">> ELSE <<>>)
    \o (IF Contains(Properties, "red") THEN <<"u8", "u8", "u8">> ELSE <<>>)

TypeSizes(types) == SeqSum([i \in 1..Len(types) |-> SizeOf(types[i])])

\* The byte offset of every field of a payload.
RECURSIVE Offsets(_)
Offsets(Payload) ==
    IF Len(Payload) = 0 THEN <<>>
    ELSE IF Len(Payload) = 1 THEN <<0>>
    ELSE LET mid == Len(Payload) \div 2
             left == SubSeq(Payload, 1, mid)
             right == Offsets(SubSeq(Payload, mid + 1, Len(Payload)))
         IN  Offsets(left) \o [j \in 1..Len(right) |-> right[j] + ByteSize(left)]

\* *reinterpret_cast<const T*>(Data) at byte offset off of the payload: the
\* value of the field stored there, or whatever the memory holds when the
\* bytes lie outside the payload or are not one stored field of that type.
ReadAt(Payload, offsets, off, t, memory) ==
    LET at == {j \in 1..Len(Payload) : offsets[j] = off /\ Payload[j].t = t}
    IN  IF at = {} THEN memory ELSE Payload[CHOOSE j \in at : TRUE].v

\* The loop over i of the binary branch: point i read at Data.
ReadPointBinary(Payload, offsets, Properties, layout, off, memory) ==
    LET val(k) == ReadAt(Payload, offsets, off + TypeSizes(SubSeq(layout, 1, k - 1)),
                         layout[k], memory)
        hasN == Contains(Properties, "nx")
        hasC == Contains(Properties, "red")
        c == Len(layout) - 3
    IN  FPointCloudPoint(
            FVector(val(1), val(2), val(3)),
            IF hasN /\ Len(layout) >= 6 /\ layout[4] = "f32"
            THEN FVector(val(4), val(5), val(6)) ELSE DefaultPoint.Normal,
            IF hasC THEN FColor(val(c + 1).n, val(c + 2).n, val(c + 3).n)
                    ELSE DefaultPoint.Color)

\* The ASCII branch for one line: Values.Num() decides what is assigned.
ReadPointASCII(Values) ==
    FPointCloudPoint(
        IF Len(Values) >= 3
        THEN FVector(Atof(Values[1]), Atof(Values[2]), Atof(Values[3]))
        ELSE DefaultPoint.Position,
        IF Len(Values) >= 6
        THEN FVector(Atof(Values[4]), Atof(Values[5]), Atof(Values[6]))
        ELSE DefaultPoint.Normal,
        IF Len(Values) >= 9
        THEN FColor(AtoiValue(Values[7]) % 256, AtoiValue(Values[8]) % 256,
                    AtoiValue(Values[9]) % 256)
        ELSE DefaultPoint.Color)

\* What a call of a reader leaves: whether it returned, its return value, the
\* arrays it filled, and the number of bytes it read beyond the loaded file.
ReadResult(op, returned, ret, points, splats, overrun) ==
    [op |-> op, returned |-> returned, ret |-> ret, OutPoints |-> points,
     OutSplats |-> splats, Overrun |-> overrun]

\* ReadPointCloud after the header is parsed and "end_header" found: H is
\* what ParsePlyHeader returned, start the DataStart found.  memory: what the
\* bytes outside the file hold; faults: reading them hits an unmapped page.
ReadPointCloudData(File, H, layout, offsets, start, memory, faults) ==
    LET op == "ReadPointCloud"
        N == H.OutNumVertices
        stride == TypeSizes(layout)
        need == start + N * stride
        size == IF offsets = <<>> THEN 0
                ELSE offsets[Len(offsets)] + SizeOf(File.Payload[Len(offsets)].t)
        over == IF need > size THEN need - size ELSE 0
    IN  IF H.OutIsBinary
        THEN IF over > 0 /\ faults
             THEN ReadResult(op, FALSE, FALSE, <<>>, <<>>, over)
             ELSE ReadResult(op, TRUE, N > 0,
                      [i \in 1..N |-> ReadPointBinary(File.Payload, offsets, H.OutProperties,
                                                      layout, start + (i - 1) * stride, memory)],
                      <<>>, over)
        ELSE ReadResult(op, TRUE, N > 0,
                 [i \in 1..N |-> IF i <= Len(File.Lines)
                                 THEN ReadPointASCII(File.Lines[i])
                                 ELSE DefaultPoint],
                 <<>>, 0)

\* ReadPointCloud on the file at FilePath.  exists: the file can be loaded.
ReadPointCloud(File, exists, memory, faults) ==
    LET op == "ReadPointCloud"
    IN  IF ~exists THEN ReadResult(op, TRUE, FALSE, <<>>, <<>>, 0)
        ELSE IF ~ParsePlyHeader(File).ret THEN ReadResult(op, TRUE, FALSE, <<>>, <<>>, 0)
        ELSE IF ~HasEndHeader(File) THEN ReadResult(op, TRUE, FALSE, <<>>, <<>>, 0)
        ELSE ReadPointCloudData(File, ParsePlyHeader(File),
                                PointLayout(ParsePlyHeader(File).OutProperties),
                                Offsets(File.Payload), DataStart(File), memory, faults)

\* GetPlyInfo: the header's vertex count, format and kind.
GetPlyInfo(File, exists) ==
    LET H == ParsePlyHeader(File)
    IN  IF ~exists \/ ~H.ret
        THEN [ret |-> FALSE, OutNumVertices |-> IF exists THEN H.OutNumVertices ELSE 0,
              OutIsBinary |-> exists /\ H.OutIsBinary, OutIsGaussian |-> FALSE]
        ELSE [ret |-> TRUE, OutNumVertices |-> H.OutNumVertices,
              OutIsBinary |-> H.OutIsBinary,
              OutIsGaussian |-> \/ Contains(H.OutProperties, "f_dc_0")
                                \/ Contains(H.OutProperties, "opacity")
                                \/ Contains(H.OutProperties, "scale_0")]

\* A default-constructed FGaussianSplat.
DefaultSplat == GaussianSplat(FVector(0, 0, 0), [i \in 1..NumRestSH |-> 0], 1)

\* ReadGaussianSplats: OutSplats.SetNum(NumVertices) and nothing else is read.
ReadGaussianSplats(File, exists) ==
    LET op == "ReadGaussianSplats"
        I == GetPlyInfo(File, exists)
    IN  IF ~I.ret THEN ReadResult(op, TRUE, FALSE, <<>>, <<>>, 0)
        ELSE IF ~I.OutIsGaussian THEN ReadResult(op, TRUE, FALSE, <<>>, <<>>, 0)
        ELSE ReadResult(op, TRUE, TRUE, <<>>, [i \in 1..I.OutNumVertices |-> DefaultSplat], 0)

\* Coordinates of the points written: -3/2, 1/256 (which "%.6f" rounds) and
\* 1 + 2^-25 (which a float rounds).
PointCoords == {Rat(-3, 2), Rat(1, 256), Rat(2^25 + 1, 2^25)}

PointInputs ==
    {FPointCloudPoint(FVector(x, RZero, Rat(1, 256)), FVector(RZero, Rat(1, 1), RZero),
                      FColor(255, 0, 7)) : x \in PointCoords}
    \cup {FPointCloudPoint(FVector(Rat(1, 1), Rat(-3, 2), RZero),
                           FVector(Rat(2^25 + 1, 2^25), RZero, RZero), FColor(0, 128, 255)),
          DefaultPoint}

PointLists == UNION {[1..n -> PointInputs] : n \in 0..MaxPoints}

\* Splat lists written to a file that is read back.
ReadSplatLists ==
    UNION {[1..n -> {GaussianSplat(FVector(1, 2, 3), [i \in 1..NumRestSH |-> i], 0),
                     DefaultSplat}] : n \in 1..MaxPoints}

NoFile == PlyFile(<<>>, <<>>, <<>>, <<>>)
NoOrigin == [op |-> "none", bBinary |-> FALSE, damage |-> "none"]
NoRead == ReadResult("none", TRUE, FALSE, <<>>, <<>>, 0)

\* What can have happened to a written point-cloud file before it is
\* read: it lost its last k payload fields or lines, its first line,
\* its vertex count, its end_header line, or it was saved with CRLF lines.
Damaged(File, damage, k) ==
    CASE damage = "truncated" ->
            [File EXCEPT !.Payload = SubSeq(@, 1, Len(@) - k),
                         !.Lines = SubSeq(@, 1, Len(@) - k)]
      [] damage = "not ply" ->
            [File EXCEPT !.Header = Tail(@)]
      [] damage = "zero vertices" ->
            [File EXCEPT !.Header[3] = HeaderLine(<<"element", "vertex", "">>, 0)]
      [] damage = "no vertex count" ->
            [File EXCEPT !.Header[3] = HeaderLine(<<"element", "vertex">>, -1)]
      [] damage = "no end_header" ->
            [File EXCEPT !.Header = SubSeq(@, 1, Len(@) - 1)]
      [] damage = "crlf" ->
            [File EXCEPT !.Eol = <<"\r", "\n">>]
      [] OTHER -> File

\* Fields or lines lost by a truncated file: the last value, the last color
\* and float, the whole last point.
Truncations == {1, 4, 9}

Damages == {"truncated", "not ply", "zero vertices", "no vertex count", "no end_header", "crlf"}

RdInit ==
    /\ \/ Points \in PointLists /\ rdSplats = <<>>
       \/ Points = <<>> /\ rdSplats \in ReadSplatLists
    /\ plyFile = NoFile
    /\ plyOrigin = NoOrigin
    /\ plyRead = NoRead

RdIdle ==
    /\ Points = <<>>
    /\ rdSplats = <<>>
    /\ plyFile = NoFile
    /\ plyOrigin = NoOrigin
    /\ plyRead = NoRead

\* WritePointCloud(FilePath, Points, bBinary); an empty array writes nothing.
\* plyRead holds the result of the last read of the file as it is now.
WritePointCloudAct ==
    /\ plyOrigin.op = "none"
    /\ Points # <<>>
    /\ \E bBinary \in BOOLEAN :
          /\ plyFile' = WritePointCloud(Points, bBinary)
          /\ plyOrigin' = [op |-> "WritePointCloud", bBinary |-> bBinary, damage |-> "none"]
    /\ plyRead' = NoRead
    /\ UNCHANGED <<Points, rdSplats>>

\* WriteGaussianSplats(FilePath, Splats, bBinary)
WriteGaussianSplatsAct ==
    /\ plyOrigin.op = "none"
    /\ rdSplats # <<>>
    /\ \E bBinary \in BOOLEAN :
          /\ plyFile' = GaussianFile(rdSplats, bBinary)
          /\ plyOrigin' = [op |-> "WriteGaussianSplats", bBinary |-> bBinary, damage |-> "none"]
    /\ plyRead' = NoRead
    /\ UNCHANGED <<Points, rdSplats>>

\* The environment: the written point-cloud file is damaged before it is read.
DamageFileAct ==
    /\ plyOrigin.op = "WritePointCloud"
    /\ plyOrigin.damage = "none"
    /\ \E damage \in Damages :
          \E k \in (IF damage = "truncated"
                    THEN {n \in Truncations : n <= Len(plyFile.Payload) + Len(plyFile.Lines)}
                    ELSE {0}) :
              /\ plyFile' = Damaged(plyFile, damage, k)
              /\ plyOrigin' = [plyOrigin EXCEPT !.damage = damage]
    /\ plyRead' = NoRead
    /\ UNCHANGED <<Points, rdSplats>>

\* ReadPointCloud, applied to no file or to a point-cloud file.
ReadPointCloudAct ==
    /\ plyOrigin.op # "WriteGaussianSplats"
    /\ \E memory \in {RZero, Rat(77, 1)} : \E faults \in BOOLEAN :
          plyRead' = ReadPointCloud(plyFile, plyOrigin.op # "none", memory, faults)
    /\ UNCHANGED <<Points, rdSplats, plyFile, plyOrigin>>

\* ReadGaussianSplats, applied to no file or to any file written.
ReadGaussianSplatsAct ==
    /\ plyRead' = ReadGaussianSplats(plyFile, plyOrigin.op # "none")
    /\ UNCHANGED <<Points, rdSplats, plyFile, plyOrigin>>

RdNext ==
    \/ WritePointCloudAct /\ UNCHANGED rdRest
    \/ WriteGaussianSplatsAct /\ UNCHANGED rdRest
    \/ DamageFileAct /\ UNCHANGED rdRest
    \/ ReadPointCloudAct /\ UNCHANGED rdRest
    \/ ReadGaussianSplatsAct /\ UNCHANGED rdRest

-----------------------------------------------------------------------------
(* FColmapWriter: image records and image file names *)

\* Longest viewpoint list enumerated element by element.
MaxViewpoints == 3

\* Length of the one long trajectory, whose indices reach two digits.
LongTrajectory == 11

\* Default of FormatImageIndex's NumDigits.
DefaultNumDigits == 5

DigitChar(d) == <<"0", "1", "2", "3", "4", "5", "6", "7", "8", "9">>[d + 1]

\* The decimal digits of a non-negative integer, as printf's %d prints them.
RECURSIVE Digits(_)
Digits(n) == IF n < 10 THEN <<DigitChar(n)>> ELSE Append(Digits(n \div 10), DigitChar(n % 10))

FormatImageIndex_LastDigit(Index, NumDigits) ==
    [i \in 1..(NumDigits - 1) |-> "0"] \o <<DigitChar(Index % 10)>>

\* Printf("%0*d", NumDigits, Index): zero-padded to at least NumDigits characters.
FormatImageIndex(Index, NumDigits) ==
    LET d == Digits(Index)
    IN  [i \in 1..(NumDigits - Len(d)) |-> "0"] \o d

FCameraViewpoint(id, pos) == [ViewpointId |-> id, Position |-> pos]

\* Viewpoint records the image carries the id of, so that the order shows.
ViewpointInputs ==
    {FCameraViewpoint(7, FVector(0, 0, 0)), FCameraViewpoint(8, FVector(500, 0, 100))}

ViewpointLists ==
    UNION {[1..n -> ViewpointInputs] : n \in 0..MaxViewpoints}
    \cup {[i \in 1..LongTrajectory |-> FCameraViewpoint(i - 1, FVector(100 * i, 0, 0))]}

ImagePrefixes == {<<>>, <<"i", "m", "a", "g", "e", "_">>, <<"c", "1", "_">>}

JpgExtension == <<".", "j", "p", "g">>
PngExtension == <<".", "p", "n", "g">>

\* The loop body of CreateImagesFromViewpoints for i = Index (0-based). Viewpoint
\* is the id of the viewpoint the pose is taken from.
ColmapImage(VP, Index, ImagePrefix, ImageExtension) ==
    [ImageId |-> Index + 1,
     CameraId |-> 1,
     ImageName |-> ImagePrefix \o FormatImageIndex(Index, DefaultNumDigits) \o ImageExtension,
     Viewpoint |-> VP.ViewpointId]

CreateImagesFromViewpoints(VPs, ImagePrefix, ImageExtension) ==
    [k \in 1..Len(VPs) |-> ColmapImage(VPs[k], k - 1, ImagePrefix, ImageExtension)]

NoFormatted == [Index |-> -1, NumDigits |-> -1, Text |-> <<>>]

ImgInit ==
    /\ imgViewpoints \in ViewpointLists
    /\ imgPrefix \in ImagePrefixes
    /\ imgExtension \in {JpgExtension, PngExtension}
    /\ Images = <<>>
    /\ imgPc = "ready"
    /\ imgFormatted = NoFormatted

ImgIdle ==
    /\ imgViewpoints = <<>>
    /\ imgPrefix = <<>>
    /\ imgExtension = <<>>
    /\ Images = <<>>
    /\ imgPc = "idle"
    /\ imgFormatted = NoFormatted

CreateImagesFromViewpointsAct ==
    /\ imgPc = "ready"
    /\ Images' = CreateImagesFromViewpoints(imgViewpoints, imgPrefix, imgExtension)
    /\ imgPc' = "created"
    /\ UNCHANGED <<imgViewpoints, imgPrefix, imgExtension, imgFormatted>>

FormatImageIndexAct ==
    /\ imgPc \in {"ready", "created"}
    /\ imgFormatted = NoFormatted
    /\ \E Index \in {0, 9, 10, 99999, 100000}, NumDigits \in {1, DefaultNumDigits} :
          imgFormatted' = [Index |-> Index, NumDigits |-> NumDigits,
                           Text |-> FormatImageIndex(Index, NumDigits)]
    /\ UNCHANGED <<imgViewpoints, imgPrefix, imgExtension, Images, imgPc>>

ImgNext ==
    \/ CreateImagesFromViewpointsAct /\ UNCHANGED imgRest
    \/ FormatImageIndexAct /\ UNCHANGED imgRest

-----------------------------------------------------------------------------
(* Configuration validation *)

\* Largest number of custom waypoints in a trajectory configuration.
MaxWaypoints == 3

ECameraTrajectoryType ==
    {"Spherical", "Orbital", "Spiral", "Grid", "Custom", "Hemisphere", "Panoramic360"}

IsSquare(n) == \E r \in 0..n : r * r = n

\* FMath::Sqrt of a perfect square is exact; Grid configurations are drawn
\* with NumRings * ViewsPerRing a perfect square.
RECURSIVE FloorSqrt(_, _)
FloorSqrt(n, r) == IF (r + 1) * (r + 1) > n THEN r ELSE FloorSqrt(n, r + 1)

\* The Spiral count is taken ring by ring.
GetExpectedViewpointCount_SpiralByRings(T) ==
    CASE T.TrajectoryType = "Grid" ->
            FloorSqrt(T.ViewsPerRing * T.NumRings, 0) * FloorSqrt(T.ViewsPerRing * T.NumRings, 0)
      [] T.TrajectoryType = "Panoramic360" -> 6 * T.ViewsPerRing
      [] T.TrajectoryType = "Custom" -> Len(T.CustomWaypoints)
      [] OTHER -> T.NumRings * T.ViewsPerRing

GetExpectedViewpointCount(T) ==
    CASE T.TrajectoryType = "Orbital" -> T.NumRings * T.ViewsPerRing
      [] T.TrajectoryType \in {"Spherical", "Hemisphere"} -> T.NumRings * T.ViewsPerRing
      [] T.TrajectoryType = "Spiral" -> T.ViewsPerRing * 3
      [] T.TrajectoryType = "Grid" ->
            FloorSqrt(T.ViewsPerRing * T.NumRings, 0) * FloorSqrt(T.ViewsPerRing * T.NumRings, 0)
      [] T.TrajectoryType = "Panoramic360" -> 6 * T.ViewsPerRing
      [] T.TrajectoryType = "Custom" -> Len(T.CustomWaypoints)
      [] OTHER -> T.NumRings * T.ViewsPerRing

\* A warning string: its fixed text and the values printed into it.
Warning(text, args) == [text |-> text, args |-> args]

When(cond, warnings) == IF cond THEN warnings ELSE <<>>

\* FCameraTrajectoryGenerator::ValidateConfig: validity and OutWarnings.
\* 360.0f / ViewsPerRing is +infinity for ViewsPerRing = 0.
TrajectoryValidateConfig(T) ==
    LET TotalViews == GetExpectedViewpointCount(T)
        StepExceeds == T.ViewsPerRing = 0 \/ (T.ViewsPerRing > 0 /\ 360 > 30 * T.ViewsPerRing)
        TooFew == T.TrajectoryType = "Custom" /\ Len(T.CustomWaypoints) < 3
    IN  [bIsValid |-> ~TooFew,
         Warnings |->
            (IF TotalViews < 50 THEN <<Warning("Low viewpoint count", <<Rat(TotalViews, 1)>>)>>
             ELSE IF TotalViews > 500 THEN <<Warning("High viewpoint count", <<Rat(TotalViews, 1)>>)>>
             ELSE <<>>)
            \o (IF T.BaseRadius < 100 THEN <<Warning("Very small radius", <<>>)>>
                ELSE IF T.BaseRadius > 10000 THEN <<Warning("Very large radius", <<>>)>>
                ELSE <<>>)
            \o When(T.MaxElevation - T.MinElevation < 30, <<Warning("Narrow elevation range", <<>>)>>)
            \o When(StepExceeds, <<Warning("Angular step", <<Rat(360, T.ViewsPerRing)>>)>>)
            \o When(TooFew, <<Warning("Custom trajectory requires at least 3 waypoints.", <<>>)>>)]

\* UCaptureOrchestrator::ValidateConfig: validity and OutWarnings. The validity
\* returned by the trajectory validation is not used.
ValidateConfig(Config) ==
    LET T == TrajectoryValidateConfig(Config.TrajectoryConfig)
    IN  [bIsValid |-> Config.OutputDirectory # "",
         Warnings |->
            When(Config.OutputDirectory = "", <<Warning("Output directory not specified", <<>>)>>)
            \o When(Config.ImageWidth < 640 \/ Config.ImageHeight < 480,
                    <<Warning("Resolution below 640x480", <<>>)>>)
            \o When(Config.ImageWidth > 4096 \/ Config.ImageHeight > 4096,
                    <<Warning("Resolution above 4096", <<>>)>>)
            \o T.Warnings
            \o When(Config.FieldOfView < 45 \/ Config.FieldOfView > 120,
                    <<Warning("Unusual FOV", <<Rat(Config.FieldOfView, 1)>>)>>)]

Waypoints(n) == [i \in 1..n |-> FVector(100 * i, 0, 0)]

\* Ring layouts: <<NumRings, ViewsPerRing, BaseRadius, MaxElevation>>; the first
\* is the default configuration.
RingLayouts ==
    {<<5, 36, 500, 60>>, <<1, 9, 50, -10>>, <<20, 36, 20000, 60>>, <<4, 0, 500, 60>>,
     <<4, 9, 500, 60>>}

FTrajectoryConfig(type, ring, n) ==
    [TrajectoryType |-> type,
     NumRings |-> ring[1],
     ViewsPerRing |-> ring[2],
     BaseRadius |-> ring[3],
     MinElevation |-> -30,
     MaxElevation |-> ring[4],
     CustomWaypoints |-> Waypoints(n),
     FocusPoint |-> FVector(0, 0, 0),
     StartAzimuth |-> 0,
     bVaryRadiusPerRing |-> TRUE,
     RadiusVariation |-> Rat(15, 100),
     bStaggerRings |-> TRUE,
     bLookAtFocusPoint |-> TRUE,
     PitchOffset |-> 0]

TrajectoryConfigs ==
    {T \in {FTrajectoryConfig(type, ring, n) :
                type \in ECameraTrajectoryType, ring \in RingLayouts, n \in 0..MaxWaypoints} :
        T.TrajectoryType = "Grid" => IsSquare(T.NumRings * T.ViewsPerRing)}

CaptureConfigs ==
    [OutputDirectory : {"", "/tmp/test_output"},
     ImageWidth : {-1, 0, 320, 1920, 8192},
     ImageHeight : {0, 1080},
     FieldOfView : {30, 90},
     TrajectoryConfig : TrajectoryConfigs]

NoValidation == [called |-> FALSE, bIsValid |-> FALSE, Warnings |-> <<>>]

Validation(r) == [called |-> TRUE, bIsValid |-> r.bIsValid, Warnings |-> r.Warnings]

IdleConfig ==
    [OutputDirectory |-> "", ImageWidth |-> 0, ImageHeight |-> 0, FieldOfView |-> 0,
     TrajectoryConfig |-> [TrajectoryType |-> "Orbital", NumRings |-> 0, ViewsPerRing |-> 0,
                           BaseRadius |-> 0, MinElevation |-> 0, MaxElevation |-> 0,
                           CustomWaypoints |-> <<>>]]

ValInit ==
    /\ valConfig \in CaptureConfigs
    /\ valResult = NoValidation
    /\ trajResult = NoValidation

ValIdle ==
    /\ valConfig = IdleConfig
    /\ valResult = NoValidation
    /\ trajResult = NoValidation

ValidateConfigAct ==
    /\ valResult = NoValidation
    /\ valResult' = Validation(ValidateConfig(valConfig))
    /\ UNCHANGED <<valConfig, trajResult>>

TrajectoryValidateConfigAct ==
    /\ trajResult = NoValidation
    /\ trajResult' = Validation(TrajectoryValidateConfig(valConfig.TrajectoryConfig))
    /\ UNCHANGED <<valConfig, valResult>>

ValNext ==
    \/ ValidateConfigAct /\ UNCHANGED valRest
    \/ TrajectoryValidateConfigAct /\ UNCHANGED valRest

-----------------------------------------------------------------------------
(* FPlyWriter::ValidateSplats *)

\* Longest array handed to ValidateSplats, counted in runs of equal splats.
MaxRuns == 2

\* A float: a finite value (a rational), a NaN or an infinity.
Finite(v) == [k |-> "finite", v |-> v]
NaN == [k |-> "nan", v |-> RZero]
PlusInf == [k |-> "+inf", v |-> RZero]
MinusInf == [k |-> "-inf", v |-> RZero]

\* FMath::IsFinite
IsFinite(f) == f.k = "finite"

\* FVector::ContainsNaN(): some component is not finite.
ContainsNaN(V) == ~IsFinite(V.X) \/ ~IsFinite(V.Y) \/ ~IsFinite(V.Z)

RAdd(a, b) == RSub(a, RNeg(b))
RLess(a, b) == ~RLeq(b, a)

\* FMath::Abs(Rotation.Size() - 1.0f) > 0.01f.  Size() is not negative, so
\* this is Size() > 1.01 or Size() < 0.99, compared here on the squares.
NonUnitRotation(Q) ==
    LET SizeSquared == RAdd(RAdd(RMul(Q.X, Q.X), RMul(Q.Y, Q.Y)),
                            RAdd(RMul(Q.Z, Q.Z), RMul(Q.W, Q.W)))
    IN  \/ RLess(Rat(10201, 10000), SizeSquared)
        \/ RLess(SizeSquared, Rat(9801, 10000))

\* The four checks of the loop body.
InvalidPosition(Splat) ==
    ~ContainsNaN(Splat.Position) /\ ~IsFinite(Splat.Position.X)

InvalidOpacity(Splat) == RLess(Splat.Opacity, RZero) \/ RLess(Rat(1, 1), Splat.Opacity)

ExtremeScale(Splat) ==
    RLess(Rat(10, 1), Splat.Scale.X) \/ RLess(Splat.Scale.X, Rat(-20, 1))

\* A TArray<FGaussianSplat> given as runs: Count equal splats in a row.
Run(splat, count) == [Splat |-> splat, Count |-> count]

Num(S) == SeqSum([i \in 1..Len(S) |-> S[i].Count])

\* The counter a check increments over the whole array.
Counted(S, Check(_)) ==
    SeqSum([i \in 1..Len(S) |-> IF Check(S[i].Splat) THEN S[i].Count ELSE 0])

ValidateSplats(S) ==
    LET InvalidPos == Counted(S, InvalidPosition)
        InvalidOpacityCount == Counted(S, InvalidOpacity)
        InvalidScale == Counted(S, ExtremeScale)
        InvalidRotation == Counted(S, LAMBDA Splat : NonUnitRotation(Splat.Rotation))
    IN  IF Num(S) = 0
        THEN [ret |-> FALSE, OutWarnings |-> <<Warning("Empty splat array", <<>>)>>]
        ELSE [ret |-> InvalidPos = 0,
              OutWarnings |->
                  When(InvalidPos > 0,
                       <<Warning("%d splats have invalid positions", <<InvalidPos>>)>>)
                  \o When(InvalidOpacityCount > 0,
                          <<Warning("%d splats have invalid opacity values", <<InvalidOpacityCount>>)>>)
                  \o When(InvalidScale > 0,
                          <<Warning("%d splats have extreme scale values", <<InvalidScale>>)>>)
                  \o When(InvalidRotation > 0,
                          <<Warning("%d splats have non-unit rotation quaternions", <<InvalidRotation>>)>>)
                  \o When(Num(S) < 1000,
                          <<Warning("Low splat count (%d). 10K-1M typical for quality scenes.", <<Num(S)>>)>>)
                  \o When(Num(S) >= 1000 /\ Num(S) > 10000000,
                          <<Warning("Very high splat count (%d). May impact performance.", <<Num(S)>>)>>)]

FQuat(x, y, z, w) == [X |-> x, Y |-> y, Z |-> z, W |-> w]

ValidatedSplat(pos, opacity, scale, rotation) ==
    [Position |-> pos, Opacity |-> opacity,
     Scale |-> FVector(scale, Rat(-5, 1), Rat(-5, 1)), Rotation |-> rotation]

Origin == FVector(Finite(RZero), Finite(RZero), Finite(RZero))

\* The splats validated: a sound one, then splats with one thing wrong each.
ValidatedSplats ==
    {ValidatedSplat(pos, Rat(1, 1), Rat(-5, 1), FQuat(RZero, RZero, RZero, Rat(1, 1))) :
        pos \in {Origin,
                 [Origin EXCEPT !.X = NaN], [Origin EXCEPT !.X = PlusInf],
                 [Origin EXCEPT !.Y = NaN], [Origin EXCEPT !.Z = MinusInf]}}
    \cup {ValidatedSplat(Origin, op, Rat(-5, 1), FQuat(RZero, RZero, RZero, Rat(1, 1))) :
            op \in {RZero, Rat(-1, 2), Rat(3, 2)}}
    \cup {ValidatedSplat(Origin, Rat(1, 1), sc, FQuat(RZero, RZero, RZero, Rat(1, 1))) :
            sc \in {Rat(10, 1), Rat(11, 1), Rat(-20, 1), Rat(-21, 1)}}
    \cup {ValidatedSplat(Origin, Rat(1, 1), Rat(-5, 1), FQuat(RZero, RZero, RZero, w)) :
            w \in {RZero, Rat(201, 200), Rat(51, 50)}}

\* Lengths of the runs: one splat, 1000 splats, more than ten million.
RunLengths == {1, 1000, 10000001}

SplatArrays ==
    UNION {[1..n -> {Run(s, c) : s \in ValidatedSplats, c \in RunLengths}] : n \in 0..MaxRuns}

NoSplatValidation == [called |-> FALSE, ret |-> FALSE, OutWarnings |-> <<>>]

VsInit ==
    /\ vsSplats \in SplatArrays
    /\ vsResult = NoSplatValidation

VsIdle ==
    /\ vsSplats = <<>>
    /\ vsResult = NoSplatValidation

ValidateSplatsAct ==
    /\ \E r \in {ValidateSplats(vsSplats)} :
          vsResult' = [called |-> TRUE, ret |-> r.ret, OutWarnings |-> r.OutWarnings]
    /\ UNCHANGED vsSplats

VsNext ==
    \/ ValidateSplatsAct /\ UNCHANGED vsRest

-----------------------------------------------------------------------------
(* FCameraTrajectoryGenerator: the trajectory generators *)

MaxRings == 3
MaxViews == 3

RDiv(a, b) == Rat(a.n * b.d, a.d * b.n)

\* A float made from an integer.
F(i) == Finite(Rat(i, 1))

IsZero(f) == f.k = "finite" /\ f.v.n = 0
IsNaN(f) == f.k = "nan"
FSign(f) == IF f.k = "-inf" \/ (f.k = "finite" /\ f.v.n < 0) THEN -1 ELSE 1
Inf(sign) == IF sign < 0 THEN MinusInf ELSE PlusInf

\* IEEE-754 arithmetic on floats, without rounding: x / 0 is an infinity,
\* 0 / 0, inf * 0 and inf - inf are NaN, and NaN propagates.
FMul(a, b) ==
    IF IsNaN(a) \/ IsNaN(b) THEN NaN
    ELSE IF IsFinite(a) /\ IsFinite(b) THEN Finite(RMul(a.v, b.v))
    ELSE IF IsZero(a) \/ IsZero(b) THEN NaN
    ELSE Inf(FSign(a) * FSign(b))

FDiv(a, b) ==
    IF IsNaN(a) \/ IsNaN(b) THEN NaN
    ELSE IF IsFinite(b) /\ ~IsZero(b)
         THEN IF IsFinite(a) THEN Finite(RDiv(a.v, b.v)) ELSE Inf(FSign(a) * FSign(b))
    ELSE IF IsZero(b)
         THEN IF IsZero(a) THEN NaN ELSE Inf(FSign(a))
    ELSE IF IsFinite(a) THEN Finite(RZero) ELSE NaN

FAdd(a, b) ==
    IF IsNaN(a) \/ IsNaN(b) THEN NaN
    ELSE IF IsFinite(a) /\ IsFinite(b) THEN Finite(RAdd(a.v, b.v))
    ELSE IF IsFinite(a) THEN b
    ELSE IF IsFinite(b) \/ a.k = b.k THEN a
    ELSE NaN

FNeg(a) == FMul(F(-1), a)
FSub(a, b) == FAdd(a, FNeg(b))

\* a < b on floats: false when either side is NaN.
FLess(a, b) ==
    /\ ~IsNaN(a) /\ ~IsNaN(b)
    /\ a.k # b.k \/ IsFinite(a)
    /\ CASE a.k = "-inf" -> TRUE
         [] a.k = "+inf" -> FALSE
         [] b.k = "+inf" -> TRUE
         [] b.k = "-inf" -> FALSE
         [] OTHER -> RLess(a.v, b.v)

FMax(a, b) == IF FLess(b, a) THEN a ELSE b
FMin(a, b) == IF FLess(a, b) THEN a ELSE b

\* The radius Base * (1 + Variation * sin(Degrees)), kept as its three
\* operands; VariedRadius(b, RZero, F(0)) is the radius b itself.
VariedRadius(base, variation, degrees) ==
    [Base |-> base, Variation |-> variation, Degrees |-> degrees]

\* The interval sin(degrees) lies in: exact at the multiples of 90 degrees,
\* the sign of the half-turn otherwise.
SinBounds(degrees) ==
    LET d == degrees.v
        turn == (d.n \div d.d) % 360
        whole == d.d = 1
    IN  CASE whole /\ turn \in {0, 180} -> <<0, 0>>
          [] whole /\ turn = 90 -> <<1, 1>>
          [] whole /\ turn = 270 -> <<-1, -1>>
          [] turn < 180 -> <<0, 1>>
          [] OTHER -> <<-1, 0>>

\* The least and the greatest value of a VariedRadius.
RadiusBounds(r) ==
    LET s == SinBounds(r.Degrees)
        at(x) == RMul(r.Base, RAdd(Rat(1, 1), RMul(r.Variation, Rat(x, 1))))
    IN  IF RLeq(at(s[1]), at(s[2])) THEN <<at(s[1]), at(s[2])>> ELSE <<at(s[2]), at(s[1])>>

RadiusIsFinite(r) == IsFinite(r.Degrees)

\* A position is kept as the call that computes it; the center is the
\* focus point.
SphericalToCartesian(Radius, ElevationDegrees, AzimuthDegrees, Center) ==
    [form |-> "SphericalToCartesian", Radius |-> Radius,
     ElevationDegrees |-> ElevationDegrees, AzimuthDegrees |-> AzimuthDegrees,
     Center |-> Center]

\* Y = 1 - (Index / (TotalPoints - 1)) * 2
FibonacciY(Index, TotalPoints) ==
    FSub(F(1), FMul(FDiv(F(Index), F(TotalPoints - 1)), F(2)))

FibonacciSpherePoint(Index, TotalPoints, Radius, Center) ==
    [form |-> "FibonacciSpherePoint", Index |-> Index,
     Y |-> FibonacciY(Index, TotalPoints), Radius |-> Radius, Center |-> Center]

\* Center + FVector(X, 0, 0)
AlongX(X, Center) == [form |-> "FVector", X |-> X, Center |-> Center]

\* All three components of a position are finite: cos and sin of a
\* non-finite angle are NaN, and NaN propagates through the products.
PositionIsFinite(P) ==
    CASE P.form = "SphericalToCartesian" ->
            RadiusIsFinite(P.Radius) /\ IsFinite(P.ElevationDegrees) /\ IsFinite(P.AzimuthDegrees)
      [] P.form = "FibonacciSpherePoint" -> IsFinite(P.Y)
      [] P.form = "FVector" -> IsFinite(P.X)

FRotator(Pitch, Yaw, Roll) == [form |-> "FRotator", Pitch |-> Pitch, Yaw |-> Yaw, Roll |-> Roll]

\* The rotation of the direction from the camera to the target.
CalculateLookAtRotation(CameraPosition, TargetPosition, PitchOffset) ==
    [form |-> "LookAt", From |-> CameraPosition, PitchOffset |-> PitchOffset]

\* FVector::Rotation() of the position relative to the focus point.
DirectionRotation(Position) == [form |-> "Rotation", From |-> Position]

RotationIsFinite(R) ==
    CASE R.form = "FRotator" -> IsFinite(R.Pitch) /\ IsFinite(R.Yaw) /\ IsFinite(R.Roll)
      [] OTHER -> PositionIsFinite(R.From)

\* A generated viewpoint; a field the generator does not assign keeps the
\* default of FCameraViewpoint.
GeneratedViewpoint(id, ring, ringPosition, distance, elevation, position, rotation) ==
    [ViewpointId |-> id, RingIndex |-> ring, RingPosition |-> ringPosition,
     Distance |-> distance, ElevationAngle |-> elevation,
     Position |-> position, Rotation |-> rotation]

Radius(T) == VariedRadius(Rat(T.BaseRadius, 1), RZero, F(0))

\* One ring of GenerateOrbitalRings; first is the value of the ViewpointId
\* counter when the ring starts.
OrbitalRing(Config, RingIdx, first) ==
    LET ElevationRange == FSub(F(Config.MaxElevation), F(Config.MinElevation))
        ElevationStep == IF Config.NumRings > 1
                         THEN FDiv(ElevationRange, F(Config.NumRings - 1)) ELSE F(0)
        Elevation == FAdd(F(Config.MinElevation), FMul(ElevationStep, F(RingIdx)))
        RingRadius == IF Config.bVaryRadiusPerRing
                      THEN VariedRadius(Rat(Config.BaseRadius, 1), Config.RadiusVariation,
                                        FDiv(F(RingIdx * 180), F(Config.NumRings)))
                      ELSE Radius(Config)
        AngularStep == FDiv(F(360), F(Config.ViewsPerRing))
        AzimuthOffset == IF Config.bStaggerRings
                         THEN FAdd(F(Config.StartAzimuth),
                                   FMul(F(RingIdx % 2), FDiv(AngularStep, F(2))))
                         ELSE F(Config.StartAzimuth)
    IN  [v \in 1..Config.ViewsPerRing |->
            LET ViewIdx == v - 1
                Azimuth == FAdd(AzimuthOffset,
                                FDiv(FMul(F(ViewIdx), F(360)), F(Config.ViewsPerRing)))
                Position == SphericalToCartesian(RingRadius, Elevation, Azimuth, Config.FocusPoint)
                Rotation == IF Config.bLookAtFocusPoint
                            THEN CalculateLookAtRotation(Position, Config.FocusPoint, Config.PitchOffset)
                            ELSE FRotator(FNeg(Elevation), FAdd(Azimuth, F(90)), F(0))
            IN  GeneratedViewpoint(first + ViewIdx, RingIdx,
                                   FDiv(F(ViewIdx), F(Config.ViewsPerRing)),
                                   RingRadius, Elevation, Position, Rotation)]

\* The ViewpointId counter restarts with every ring.
GenerateOrbitalRings_IdPerRing(Config) ==
    Flatten([r \in 1..Config.NumRings |-> OrbitalRing(Config, r - 1, 0)])

GenerateOrbitalRings(Config) ==
    Flatten([r \in 1..Config.NumRings |-> OrbitalRing(Config, r - 1, (r - 1) * Config.ViewsPerRing)])

\* sin of the elevation limits used in the model, to six decimals.
SinDegrees(d) ==
    LET s == CASE Abs(d) = 0 -> 0
               [] Abs(d) = 10 -> 173648
               [] Abs(d) = 30 -> 500000
               [] Abs(d) = 45 -> 707107
               [] Abs(d) = 60 -> 866025
               [] Abs(d) = 85 -> 996195
               [] Abs(d) = 88 -> 999391
               [] Abs(d) = 89 -> 999848
    IN  Rat(IF d < 0 THEN -s ELSE s, 1000000)

\* RadiansToDegrees(Asin(y)), kept as its operand.
AsinDegrees(y) == IF IsFinite(y) THEN [k |-> "asin", v |-> y.v] ELSE NaN

\* Elevation < Min and Elevation > Max for Elevation = AsinDegrees(y): asin
\* is increasing, and a comparison with NaN is false.
AsinLess(y, Degrees) == IsFinite(y) /\ RLess(y.v, SinDegrees(Degrees))
AsinGreater(y, Degrees) == IsFinite(y) /\ RLess(SinDegrees(Degrees), y.v)

\* LocalPos.Z / Config.BaseRadius for LocalPos.Z = Y * Radius.
LocalZOverRadius(Position, BaseRadius) == FDiv(FMul(Position.Y, F(BaseRadius)), F(BaseRadius))

GenerateSpherical(Config) ==
    LET TotalPoints == Config.NumRings * Config.ViewsPerRing
        Position(i) == FibonacciSpherePoint(i, TotalPoints, Radius(Config), Config.FocusPoint)
        Sine(i) == LocalZOverRadius(Position(i), Config.BaseRadius)
        Kept == SelectSeq([k \in 1..TotalPoints |-> k - 1],
                          LAMBDA i : ~(AsinLess(Sine(i), Config.MinElevation)
                                       \/ AsinGreater(Sine(i), Config.MaxElevation)))
    IN  [n \in 1..Len(Kept) |->
            LET i == Kept[n]
                Rotation == IF Config.bLookAtFocusPoint
                            THEN CalculateLookAtRotation(Position(i), Config.FocusPoint, Config.PitchOffset)
                            ELSE DirectionRotation(Position(i))
            IN  GeneratedViewpoint(n - 1, 0, F(0), Radius(Config), AsinDegrees(Sine(i)),
                                   Position(i), Rotation)]

\* Rotation is a local FRotator that only the look-at branch assigns;
\* Uninitialized is what it holds otherwise.
GenerateSpiral(Config, Uninitialized) ==
    LET NumRevolutions == 3
        TotalPoints == NumRevolutions * Config.ViewsPerRing
        ElevationRange == FSub(F(Config.MaxElevation), F(Config.MinElevation))
    IN  [k \in 1..TotalPoints |->
            LET i == k - 1
                T == FDiv(F(i), F(TotalPoints - 1))
                Elevation == FSub(F(Config.MaxElevation), FMul(T, ElevationRange))
                Azimuth == FAdd(F(Config.StartAzimuth), FMul(T, F(360 * NumRevolutions)))
                SpiralRadius == IF Config.bVaryRadiusPerRing
                                THEN VariedRadius(Rat(Config.BaseRadius, 1), Config.RadiusVariation,
                                                  FMul(T, F(360)))
                                ELSE Radius(Config)
                Position == SphericalToCartesian(SpiralRadius, Elevation, Azimuth, Config.FocusPoint)
                Rotation == IF Config.bLookAtFocusPoint
                            THEN CalculateLookAtRotation(Position, Config.FocusPoint, Config.PitchOffset)
                            ELSE Uninitialized
            IN  GeneratedViewpoint(i, 0, F(0), SpiralRadius, Elevation,
                                   Position, Rotation)]

GenerateHemisphere(Config) ==
    LET Min == FMax(F(0), F(Config.MinElevation)).v.n
        Max == FMin(F(85), F(Config.MaxElevation)).v.n
    IN  GenerateOrbitalRings([Config EXCEPT !.MinElevation = Min, !.MaxElevation = Max])

Directions ==
    <<FRotator(F(0), F(0), F(0)), FRotator(F(0), F(90), F(0)), FRotator(F(0), F(180), F(0)),
      FRotator(F(0), F(270), F(0)), FRotator(F(-90), F(0), F(0)), FRotator(F(90), F(0), F(0))>>

GeneratePanoramic360(Config) ==
    LET NumPositions == Config.ViewsPerRing
        PathLength == FMul(F(Config.BaseRadius), F(2))
        Step == FDiv(PathLength, F(NumPositions - 1))
    IN  Flatten([p \in 1..NumPositions |->
            LET PosIdx == p - 1
                Position == AlongX(FAdd(FDiv(FNeg(PathLength), F(2)), FMul(Step, F(PosIdx))),
                                   Config.FocusPoint)
            IN  [d \in 1..Len(Directions) |->
                    GeneratedViewpoint(PosIdx * Len(Directions) + (d - 1), PosIdx,
                                       FDiv(F(d - 1), F(Len(Directions))),
                                       VariedRadius(RZero, RZero, F(0)), F(0),
                                       Position, Directions[d])]])

\* The Custom case of GenerateViewpoints: one viewpoint per waypoint, in
\* order.
CustomViewpoints(T) ==
    [i \in 1..Len(T.CustomWaypoints) |-> FCameraViewpoint(i - 1, T.CustomWaypoints[i])]

GenerateViewpoints(T, Uninitialized) ==
    CASE T.TrajectoryType = "Orbital" -> GenerateOrbitalRings(T)
      [] T.TrajectoryType = "Spherical" -> GenerateSpherical(T)
      [] T.TrajectoryType = "Spiral" -> GenerateSpiral(T, Uninitialized)
      [] T.TrajectoryType = "Hemisphere" -> GenerateHemisphere(T)
      [] T.TrajectoryType = "Panoramic360" -> GeneratePanoramic360(T)
      [] T.TrajectoryType = "Custom" -> CustomViewpoints(T)
      [] OTHER -> GenerateOrbitalRings(T)

\* FMath::CeilToInt of a float: the conversion to int32 is undefined for a
\* NaN, an infinity or a value outside int32; Undefined is what it yields.
Ceil(r) == -((-r.n) \div r.d)

CeilToInt(f, Undefined) ==
    IF IsFinite(f) /\ -2147483647 - 1 <= Ceil(f.v) /\ Ceil(f.v) <= 2147483647
    THEN Ceil(f.v) ELSE Undefined

Clamp(x, lo, hi) == IF x < lo THEN lo ELSE IF x < hi THEN x ELSE hi

\* The bounding box enters through its largest extent; BaseRadius is kept as
\* the operands of MaxExtent / tan(FOV / 2) * 1.3.
CalculateOptimalConfig(MaxExtent, DesiredOverlap, HorizontalFOV, Undefined) ==
    LET Config == FTrajectoryConfig("Orbital", <<5, 36, 500, 60>>, 0)
        AngularStep == FMul(HorizontalFOV, FSub(F(1), DesiredOverlap))
        VerticalFOV == FDiv(HorizontalFOV, FDiv(F(16), F(9)))
        VerticalAngularStep == FMul(VerticalFOV, FSub(F(1), DesiredOverlap))
        ElevationRange == FSub(F(Config.MaxElevation), F(Config.MinElevation))
    IN  [Config EXCEPT
            !.BaseRadius = [MaxExtent |-> MaxExtent, HorizontalFOV |-> HorizontalFOV],
            !.ViewsPerRing = Clamp(CeilToInt(FDiv(F(360), AngularStep), Undefined), 12, 72),
            !.NumRings = Clamp(CeilToInt(FDiv(ElevationRange, VerticalAngularStep), Undefined), 3, 8),
            !.bStaggerRings = TRUE,
            !.bVaryRadiusPerRing = TRUE,
            !.bLookAtFocusPoint = TRUE]

\* <<MinElevation, MaxElevation>>; the first is the default.
ElevationLimits == {<<-30, 60>>, <<-30, -10>>, <<88, 89>>, <<0, 85>>, <<-89, 89>>, <<30, 45>>}

GeneratorConfigs ==
    {[FTrajectoryConfig(type, <<n, v, r, el[2]>>, MaxWaypoints) EXCEPT
            !.MinElevation = el[1], !.bVaryRadiusPerRing = vary,
            !.bStaggerRings = stagger, !.bLookAtFocusPoint = look] :
        type \in ECameraTrajectoryType, n \in 0..MaxRings, v \in 0..MaxViews, r \in {0, 500},
        el \in ElevationLimits, vary \in BOOLEAN, stagger \in BOOLEAN, look \in BOOLEAN}

\* What an unassigned FRotator can hold.
UninitializedRotations == {FRotator(F(0), F(0), F(0)), FRotator(NaN, F(0), F(0))}

\* What an undefined float-to-int32 conversion can yield.
UndefinedInts == {-2147483647 - 1, 0, 2147483647}

OptimalInputs ==
    [MaxExtent : {0, 100, 1000},
     DesiredOverlap : {F(0), Finite(Rat(1, 4)), Finite(Rat(1, 2)), Finite(Rat(3, 4)),
                       Finite(Rat(7, 8)), F(1)},
     HorizontalFOV : {F(1), F(45), F(60), F(90), F(120), F(179)}]

NoGeneratorConfig == [TrajectoryType |-> "none"]
NoGeneration == [generated |-> FALSE, Viewpoints |-> <<>>]
NoOptimalInput == [MaxExtent |-> -1]
NoOptimalConfig == [TrajectoryType |-> "none"]

TrajInit ==
    /\ \/ genConfig \in GeneratorConfigs /\ optInput = NoOptimalInput
       \/ genConfig = NoGeneratorConfig /\ optInput \in OptimalInputs
    /\ genResult = NoGeneration
    /\ optResult = NoOptimalConfig

TrajIdle ==
    /\ genConfig = NoGeneratorConfig
    /\ genResult = NoGeneration
    /\ optInput = NoOptimalInput
    /\ optResult = NoOptimalConfig

GenerateViewpointsAct ==
    /\ genConfig # NoGeneratorConfig
    /\ ~genResult.generated
    /\ \E Uninitialized \in UninitializedRotations :
          genResult' = [generated |-> TRUE,
                        Viewpoints |-> GenerateViewpoints(genConfig, Uninitialized)]
    /\ UNCHANGED <<genConfig, optInput, optResult>>

CalculateOptimalConfigAct ==
    /\ optInput # NoOptimalInput
    /\ optResult = NoOptimalConfig
    /\ \E Undefined \in UndefinedInts :
          optResult' = CalculateOptimalConfig(optInput.MaxExtent, optInput.DesiredOverlap,
                                              optInput.HorizontalFOV, Undefined)
    /\ UNCHANGED <<genConfig, genResult, optInput>>

TrajNext ==
    \/ GenerateViewpointsAct /\ UNCHANGED trajRest
    \/ CalculateOptimalConfigAct /\ UNCHANGED trajRest

-----------------------------------------------------------------------------
(* FDepthExtractor: the header of a .npy depth file *)

\* The characters of a string, one string per character.
DictOpen ==
    <<"{", "'", "d", "e", "s", "c", "r", "'", ":", " ", "'", "<", "f", "4", "'", ",", " ",
      "'", "f", "o", "r", "t", "r", "a", "n", "_", "o", "r", "d", "e", "r", "'", ":", " ",
      "F", "a", "l", "s", "e", ",", " ",
      "'", "s", "h", "a", "p", "e", "'", ":", " ", "(">>
DictClose == <<")", ",", " ", "}">>

Digit(d) == <<"0", "1", "2", "3", "4", "5", "6", "7", "8", "9">>[d + 1]

\* %d of a non-negative int32.
RECURSIVE PrintfD(_)
PrintfD(n) == IF n < 10 THEN <<Digit(n)>> ELSE PrintfD(n \div 10) \o <<Digit(n % 10)>>

\* static_cast<uint8> of an ASCII character.
Uint8(C) ==
    CASE C = "\n" -> 10 [] C = " " -> 32 [] C = "'" -> 39 [] C = "(" -> 40 [] C = ")" -> 41
      [] C = "," -> 44 [] C = ":" -> 58 [] C = "<" -> 60 [] C = "F" -> 70 [] C = "_" -> 95
      [] C = "{" -> 123 [] C = "}" -> 125
      [] C \in {"0", "1", "2", "3", "4", "5", "6", "7", "8", "9"} ->
            48 + CHOOSE d \in 0..9 : Digit(d) = C
      [] OTHER ->
            LET Lower == <<"a", "b", "c", "d", "e", "f", "g", "h", "i", "j", "k", "l", "m",
                           "n", "o", "p", "q", "r", "s", "t", "u", "v", "w", "x", "y", "z">>
            IN  96 + CHOOSE i \in 1..26 : Lower[i] = C

\* magic(6) + version(2) + header_len(2) + dict
CurrentLen_DictOnly(HeaderDict) == Len(HeaderDict)

CurrentLen(HeaderDict) == 10 + Len(HeaderDict)

CreateNPYHeader(Width, Height) ==
    LET Dict == DictOpen \o PrintfD(Height) \o <<",", " ">> \o PrintfD(Width) \o DictClose
        PadLen == 64 - (CurrentLen(Dict) % 64)
        HeaderDict == IF PadLen < 64
                      THEN Dict \o [i \in 1..(PadLen - 1) |-> " "] \o <<"\n">>
                      ELSE Dict
        HeaderLen == Len(HeaderDict) % 2^16
    IN  <<147, 78, 85, 77, 80, 89>> \o <<1, 0>>
        \o <<HeaderLen % 256, (HeaderLen \div 256) % 256>>
        \o [i \in 1..Len(HeaderDict) |-> Uint8(HeaderDict[i])]

\* Image dimensions: the smallest, the largest int32, and sizes with every
\* number of digits in between that depth maps use.
Dimensions == {1, 10, 480, 1080, 1920, 65536, 1000000, 2147483647}

NpyInit ==
    /\ npyWidth \in Dimensions
    /\ npyHeight \in Dimensions
    /\ npyHeader = <<>>

NpyIdle ==
    /\ npyWidth = 0
    /\ npyHeight = 0
    /\ npyHeader = <<>>

CreateNPYHeaderAct ==
    /\ npyWidth > 0
    /\ npyHeader = <<>>
    /\ npyHeader' = CreateNPYHeader(npyWidth, npyHeight)
    /\ UNCHANGED <<npyWidth, npyHeight>>

NpyNext ==
    \/ CreateNPYHeaderAct /\ UNCHANGED npyRest

-----------------------------------------------------------------------------
(* FDepthExtractor: scene depth to linear depth *)

\* a < b on rationals, comparing the whole parts first (the products of
\* a.n * b.d would leave 32 bits for the floats met here).
RLessWide(a, b) ==
    LET ia == a.n \div a.d
        ib == b.n \div b.d
    IN  ia < ib \/ (ia = ib /\ (a.n % a.d) * b.d < (b.n % b.d) * a.d)

\* a < b on floats: false when either side is NaN.
FLessWide(a, b) ==
    /\ ~IsNaN(a) /\ ~IsNaN(b)
    /\ a.k # b.k \/ IsFinite(a)
    /\ CASE a.k = "-inf" -> TRUE
         [] a.k = "+inf" -> FALSE
         [] b.k = "+inf" -> TRUE
         [] b.k = "-inf" -> FALSE
         [] OTHER -> RLessWide(a.v, b.v)

\* The least e with n * 2^e / d >= 2^23, for 0 < n / d < 2^24.
RECURSIVE Scale(_, _, _)
Scale(n, d, e) == IF (n * 2^e) \div d >= 2^23 THEN e ELSE Scale(n, d, e + 1)

\* The float nearest to a positive rational below 2^24: 24 significant
\* bits, ties to even.
RoundToFloat(r) ==
    LET e == Scale(r.n, r.d, 0)
    IN  Rat(RoundHalfEven(r.n * 2^e, r.d), 2^e)

\* a / b in float arithmetic.
FloatDiv(a, b) ==
    LET q == FDiv(a, b)
    IN  IF IsFinite(q) /\ q.v.n > 0 THEN Finite(RoundToFloat(q.v))
        ELSE IF IsFinite(q) /\ q.v.n < 0 THEN Finite(RNeg(RoundToFloat(RNeg(q.v))))
        ELSE q

\* FMath::Clamp(X, Min, Max) = Max(Min(X, Max), Min), with
\* Min(A, B) = (A < B) ? A : B and Max(A, B) = (B < A) ? A : B.
ClampFloat(X, MinValue, MaxValue) ==
    LET Least == IF FLessWide(X, MaxValue) THEN X ELSE MaxValue
    IN  IF FLessWide(MinValue, Least) THEN Least ELSE MinValue

\* The quotient is returned without the clamp.
SceneDepthToLinear_Unclamped(Depth, Near, Far) ==
    IF ~IsNaN(Depth) /\ ~FLess(Depth, F(1)) THEN Near
    ELSE IF ~IsNaN(Depth) /\ ~FLess(F(0), Depth) THEN Far
    ELSE FloatDiv(Near, Depth)

SceneDepthToLinear(Depth, Near, Far) ==
    IF ~IsNaN(Depth) /\ ~FLess(Depth, F(1)) THEN Near
    ELSE IF ~IsNaN(Depth) /\ ~FLess(F(0), Depth) THEN Far
    ELSE ClampFloat(FloatDiv(Near, Depth), Near, Far)

\* Depth-buffer values: outside [0, 1], at its ends, inside it, and the
\* values that are no numbers.
SceneDepths ==
    {NaN, MinusInf, F(-1), F(0), Finite(Rat(1, 1024)), Finite(Rat(3, 8)), Finite(Rat(1, 2)),
     Finite(Rat(5, 8)), Finite(Rat(3, 4)), Finite(Rat(127, 128)), F(1), F(2), PlusInf}

\* Clip planes, in meters; every pair is drawn.
Planes == {Finite(Rat(1, 8)), F(1), F(10), F(1000)}

NoDepth == [k |-> "none", v |-> RZero]

DepthInit ==
    /\ SceneDepth \in SceneDepths
    /\ NearPlane \in Planes
    /\ FarPlane \in Planes \cup {PlusInf}
    /\ LinearDepth = NoDepth

DepthIdle ==
    /\ SceneDepth = NoDepth
    /\ NearPlane = NoDepth
    /\ FarPlane = NoDepth
    /\ LinearDepth = NoDepth

SceneDepthToLinearAct ==
    /\ SceneDepth # NoDepth
    /\ LinearDepth = NoDepth
    /\ LinearDepth' = SceneDepthToLinear(SceneDepth, NearPlane, FarPlane)
    /\ UNCHANGED <<SceneDepth, NearPlane, FarPlane>>

DepthNext ==
    \/ SceneDepthToLinearAct /\ UNCHANGED depthRest

-----------------------------------------------------------------------------
(* FGaussianSplat: colours and SH DC coefficients *)

\* A float or double of the conversion is kept as an enclosure: the
\* integers lo and hi with lo / 2^14 <= value <= hi / 2^14. Every
\* operation rounds its exact bounds outwards and Widen adds one unit for
\* the rounding of the result (values stay below 2^10, so the rounding
\* error of a float is below 2^-14).
Unit == 2^14

Enclosure(lo, hi) == [k |-> "finite", lo |-> lo, hi |-> hi]
NotANumber == [k |-> "nan", lo |-> 0, hi |-> 0]
Infinity(sign) == [k |-> IF sign < 0 THEN "-inf" ELSE "+inf", lo |-> 0, hi |-> 0]

Widen(e) == Enclosure(e.lo - 1, e.hi + 1)

CeilDiv(a, b) == -((-a) \div b)

Min4(a, b, c, d) == CHOOSE m \in {a, b, c, d} : \A x \in {a, b, c, d} : m <= x
Max4(a, b, c, d) == CHOOSE m \in {a, b, c, d} : \A x \in {a, b, c, d} : m >= x

\* const float C0 = 0.28209479177387814f
C0 == Enclosure((28209 * Unit) \div 100000, CeilDiv(28210 * Unit, 100000))

\* x / y for y > 0.
EncDiv(x, y) ==
    Widen(Enclosure(Min4((x.lo * Unit) \div y.lo, (x.lo * Unit) \div y.hi,
                         (x.hi * Unit) \div y.lo, (x.hi * Unit) \div y.hi),
                    Max4(CeilDiv(x.lo * Unit, y.lo), CeilDiv(x.lo * Unit, y.hi),
                         CeilDiv(x.hi * Unit, y.lo), CeilDiv(x.hi * Unit, y.hi))))

\* x * y; an infinity times the positive C0 or 255 stays that infinity.
EncMul(x, y) ==
    IF x.k # "finite" THEN x
    ELSE Widen(Enclosure(Min4((x.lo * y.lo) \div Unit, (x.lo * y.hi) \div Unit,
                              (x.hi * y.lo) \div Unit, (x.hi * y.hi) \div Unit),
                         Max4(CeilDiv(x.lo * y.lo, Unit), CeilDiv(x.lo * y.hi, Unit),
                              CeilDiv(x.hi * y.lo, Unit), CeilDiv(x.hi * y.hi, Unit))))

\* x + h / 2 for an integer h.
EncAddHalves(x, h) ==
    IF x.k # "finite" THEN x
    ELSE Widen(Enclosure(x.lo + h * (Unit \div 2), x.hi + h * (Unit \div 2)))

\* i / j for integers i and j > 0.
EncDivInt(i, j) == Widen(Enclosure((i * Unit) \div j, CeilDiv(i * Unit, j)))

\* x * i for an integer i > 0.
EncMulInt(x, i) == IF x.k # "finite" THEN x ELSE Widen(Enclosure(x.lo * i, x.hi * i))

\* An integer as an enclosure.
Exactly(i) == Enclosure(i * Unit, i * Unit)

\* (Channel / 256 - 0.5f) / C0
ChannelToSH_Over256(Channel) ==
    EncDiv(EncAddHalves(EncDivInt(Channel, 256), -1), C0)

\* (Channel / 255.0f - 0.5f) / C0
ChannelToSH(Channel) ==
    EncDiv(EncAddHalves(EncDivInt(Channel, 255), -1), C0)

ColorToSH_DC(Color) ==
    FVector(ChannelToSH(Color.R), ChannelToSH(Color.G), ChannelToSH(Color.B))

\* static_cast<uint8>(FMath::Clamp((SH * C0 + 0.5f) * 255.0f, 0.0f, 255.0f)):
\* the values the channel can take. Clamp(X, 0, 255) is
\* Max(Min(X, 255), 0) with Min(A, B) = (A < B) ? A : B, so that a NaN
\* becomes 255; the cast truncates.
SHToChannels(SH) ==
    LET X == EncMulInt(EncAddHalves(EncMul(SH, C0), 1), 255)
        ClampUnits(u) == IF u < 0 THEN 0 ELSE IF u < 255 * Unit THEN u ELSE 255 * Unit
    IN  CASE X.k \in {"nan", "+inf"} -> {255}
          [] X.k = "-inf" -> {0}
          [] OTHER -> (ClampUnits(X.lo) \div Unit)..(ClampUnits(X.hi) \div Unit)

\* The colours SH_DCToColor can return.
SH_DCToColor(SH) ==
    {[R |-> r, G |-> g, B |-> b, A |-> 255] :
        r \in SHToChannels(SH.X), g \in SHToChannels(SH.Y), b \in SHToChannels(SH.Z)}

\* Colours whose channels take every value of 0..255.
ShColors == {[R |-> c, G |-> (c + 85) % 256, B |-> 255 - c, A |-> 255] : c \in 0..255}

\* SH coefficients that come from no colour: far outside the range of
\* ColorToSH_DC, and no numbers.
ShValues ==
    {NotANumber, Infinity(-1), Infinity(1), Exactly(-20), Exactly(-2), Exactly(0), Exactly(2),
     Exactly(20)}

NoShColor == [R |-> -1, G |-> -1, B |-> -1, A |-> -1]
NoShDC == FVector(Exactly(0), Exactly(0), Exactly(0))

ShInit ==
    /\ \/ shColor \in ShColors /\ shDC = NoShDC
       \/ shColor = NoShColor /\ shDC \in {FVector(x, y, Exactly(0)) : x \in ShValues, y \in ShValues}
    /\ shRecovered = NoShColor

ShIdle ==
    /\ shColor = NoShColor
    /\ shDC = NoShDC
    /\ shRecovered = NoShColor

ColorToSH_DCAct ==
    /\ shColor # NoShColor
    /\ shDC = NoShDC
    /\ shDC' = ColorToSH_DC(shColor)
    /\ UNCHANGED <<shColor, shRecovered>>

SH_DCToColorAct ==
    /\ shColor # NoShColor => shDC # NoShDC
    /\ shRecovered = NoShColor
    /\ shRecovered' \in SH_DCToColor(shDC)
    /\ UNCHANGED <<shColor, shDC>>

ShNext ==
    \/ ColorToSH_DCAct /\ UNCHANGED shRest
    \/ SH_DCToColorAct /\ UNCHANGED shRest

-----------------------------------------------------------------------------
(* FCoordinateConverter: rotations *)

\* An angle is kept as its cosine and sine, both rational: the angle
\* modulo 360 degrees.
Angle(c, s) == [c |-> c, s |-> s]

\* 0, 90, 180 and 270 degrees, and the angles of the 3-4-5 triangle:
\* 36.87, -53.13 and 126.87 degrees.
Angles ==
    {Angle(Rat(1, 1), RZero), Angle(RZero, Rat(1, 1)), Angle(Rat(-1, 1), RZero),
     Angle(RZero, Rat(-1, 1)), Angle(Rat(4, 5), Rat(3, 5)), Angle(Rat(3, 5), Rat(-4, 5)),
     Angle(Rat(-3, 5), Rat(4, 5))}

Rotator(Pitch, Yaw, Roll) == [Pitch |-> Pitch, Yaw |-> Yaw, Roll |-> Roll]

\* The upper 3x3 block of an FMatrix, by rows; vectors are rows (v * M).
MatMul(A, B) ==
    [i \in 1..3 |-> [j \in 1..3 |->
        RAdd(RAdd(RMul(A[i][1], B[1][j]), RMul(A[i][2], B[2][j])), RMul(A[i][3], B[3][j]))]]

MatTranspose(A) == [i \in 1..3 |-> [j \in 1..3 |-> A[j][i]]]

IntMatrix(M) == [i \in 1..3 |-> [j \in 1..3 |-> Rat(M[i][j], 1)]]

AxisSwapMatrix == IntMatrix(<<<<0, 1, 0>>, <<0, 0, -1>>, <<1, 0, 0>>>>)

\* The inverse is taken to be the axis swap itself.
InverseAxisSwapMatrix_Same == IntMatrix(<<<<0, 1, 0>>, <<0, 0, -1>>, <<1, 0, 0>>>>)

InverseAxisSwapMatrix == IntMatrix(<<<<0, 0, 1>>, <<1, 0, 0>>, <<0, -1, 0>>>>)

\* FRotationMatrix(Rotator): the rows are the rotated X, Y and Z axes.
RotationMatrix(R) ==
    LET CP == R.Pitch.c  SP == R.Pitch.s
        CY == R.Yaw.c    SY == R.Yaw.s
        CR == R.Roll.c   SR == R.Roll.s
    IN  <<<<RMul(CP, CY), RMul(CP, SY), SP>>,
          <<RSub(RMul(RMul(SR, SP), CY), RMul(CR, SY)),
            RAdd(RMul(RMul(SR, SP), SY), RMul(CR, CY)),
            RNeg(RMul(SR, CP))>>,
          <<RNeg(RAdd(RMul(RMul(CR, SP), CY), RMul(SR, SY))),
            RSub(RMul(CY, SR), RMul(RMul(CR, SP), SY)),
            RMul(CR, CP)>>>>

\* FQuat::Normalize. A unit quaternion is kept as the integer vector
\* (X, Y, Z, W) without common divisor that points the same way.
Normalize(Q) ==
    LET Lcm(a, b) == (a * b) \div Gcd(a, b)
        L == Lcm(Lcm(Q.X.d, Q.Y.d), Lcm(Q.Z.d, Q.W.d))
        x == Q.X.n * (L \div Q.X.d)
        y == Q.Y.n * (L \div Q.Y.d)
        z == Q.Z.n * (L \div Q.Z.d)
        w == Q.W.n * (L \div Q.W.d)
        g == Gcd(Gcd(Abs(x), Abs(y)), Gcd(Abs(z), Abs(w)))
    IN  [X |-> x \div g, Y |-> y \div g, Z |-> z \div g, W |-> w \div g]

\* FMatrix::ToQuat followed by Normalize. The vector normalized is the one
\* ToQuat computes, without its factor 0.5 / sqrt(s).
ToQuat(M) ==
    LET tr == RAdd(RAdd(M[1][1], M[2][2]), M[3][3])
        i == IF RLess(M[1][1], M[2][2])
             THEN (IF RLess(M[2][2], M[3][3]) THEN 3 ELSE 2)
             ELSE (IF RLess(M[1][1], M[3][3]) THEN 3 ELSE 1)
        j == (i % 3) + 1
        k == (j % 3) + 1
        q == [n \in 1..4 |->
                IF n = i THEN RAdd(RSub(RSub(M[i][i], M[j][j]), M[k][k]), Rat(1, 1))
                ELSE IF n = 4 THEN RSub(M[j][k], M[k][j])
                ELSE IF n = j THEN RAdd(M[i][j], M[j][i])
                ELSE RAdd(M[i][k], M[k][i])]
    IN  IF RLess(RZero, tr)
        THEN Normalize([X |-> RSub(M[2][3], M[3][2]), Y |-> RSub(M[3][1], M[1][3]),
                        Z |-> RSub(M[1][2], M[2][1]), W |-> RAdd(tr, Rat(1, 1))])
        ELSE Normalize([X |-> q[1], Y |-> q[2], Z |-> q[3], W |-> q[4]])

\* FRotationMatrix::Make(Quat), for the unit quaternion along Q.
QuatRotationMatrix(Q) ==
    LET N2 == Q.X * Q.X + Q.Y * Q.Y + Q.Z * Q.Z + Q.W * Q.W
        xx == 2 * Q.X * Q.X  yy == 2 * Q.Y * Q.Y  zz == 2 * Q.Z * Q.Z
        xy == 2 * Q.X * Q.Y  xz == 2 * Q.X * Q.Z  yz == 2 * Q.Y * Q.Z
        wx == 2 * Q.W * Q.X  wy == 2 * Q.W * Q.Y  wz == 2 * Q.W * Q.Z
    IN  <<<<Rat(N2 - (yy + zz), N2), Rat(xy + wz, N2), Rat(xz - wy, N2)>>,
          <<Rat(xy - wz, N2), Rat(N2 - (xx + zz), N2), Rat(yz + wx, N2)>>,
          <<Rat(xz + wy, N2), Rat(yz - wx, N2), Rat(N2 - (xx + yy), N2)>>>>

\* FRotator::Quaternion(): the quaternion of the rotation matrix.
Quaternion(R) == ToQuat(RotationMatrix(R))

Cross3(a, b) ==
    <<RSub(RMul(a[2], b[3]), RMul(a[3], b[2])),
      RSub(RMul(a[3], b[1]), RMul(a[1], b[3])),
      RSub(RMul(a[1], b[2]), RMul(a[2], b[1]))>>

Dot3(a, b) == RAdd(RAdd(RMul(a[1], b[1]), RMul(a[2], b[2])), RMul(a[3], b[3]))

\* The square root of the square of a rational.
RSqrt(r) ==
    Rat(CHOOSE x \in 0..r.n : x * x = r.n, CHOOSE x \in 1..r.d : x * x = r.d)

\* Atan2(y, x) as an angle; Atan2(0, 0) is 0.
Atan2(y, x) ==
    LET h == RSqrt(RAdd(RMul(x, x), RMul(y, y)))
    IN  IF h.n = 0 THEN Angle(Rat(1, 1), RZero) ELSE Angle(RDiv(x, h), RDiv(y, h))

\* FRotationMatrix::MakeFromX for a unit axis that is not vertical.
MakeFromX(XAxis) ==
    LET NewY == Cross3(IntMatrix(<<<<0, 0, 1>>, <<0, 0, 0>>, <<0, 0, 0>>>>)[1], XAxis)
    IN  <<XAxis, NewY, Cross3(XAxis, NewY)>>

ForwardVector == IntMatrix(<<<<1, 0, 0>>, <<0, 0, 0>>, <<0, 0, 0>>>>)[1]

\* FMatrix::Rotator(): pitch and yaw from the X axis, roll from the Y and
\* Z axes against the Y axis of the rotation without roll.
MatrixRotator(M) ==
    LET XAxis == M[1]
        Pitch == Atan2(XAxis[3], RSqrt(RAdd(RMul(XAxis[1], XAxis[1]), RMul(XAxis[2], XAxis[2]))))
        Yaw == Atan2(XAxis[2], XAxis[1])
        SYAxis == RotationMatrix(Rotator(Pitch, Yaw, Angle(Rat(1, 1), RZero)))[2]
    IN  Rotator(Pitch, Yaw, Atan2(Dot3(M[3], SYAxis), Dot3(M[2], SYAxis)))

ConvertQuatToColmap(UE5Quat) ==
    LET UE5RotMatrix == QuatRotationMatrix(UE5Quat)
        ColmapRotMatrix == MatMul(MatMul(AxisSwapMatrix, UE5RotMatrix), InverseAxisSwapMatrix)
        CameraCorrection == MakeFromX(ForwardVector)
    IN  ToQuat(MatMul(ColmapRotMatrix, CameraCorrection))

ConvertRotationToColmap(Rotation) == ConvertQuatToColmap(Quaternion(Rotation))

\* The inverse of the camera correction, a rotation, is its transpose.
ConvertRotationFromColmap(Quat) ==
    LET CameraCorrection == MakeFromX(ForwardVector)
        ColmapRotMatrix == MatMul(QuatRotationMatrix(Quat), MatTranspose(CameraCorrection))
    IN  MatrixRotator(MatMul(MatMul(InverseAxisSwapMatrix, ColmapRotMatrix), AxisSwapMatrix))

Rotators == {Rotator(p, y, r) : p \in Angles, y \in Angles, r \in Angles}

NoRotator == Rotator(Angle(RZero, RZero), Angle(RZero, RZero), Angle(RZero, RZero))
NoQuat == [X |-> 0, Y |-> 0, Z |-> 0, W |-> 0]

RotInit ==
    /\ UE5Rotation \in Rotators
    /\ ColmapQuat = NoQuat
    /\ RotationRoundTrip = NoRotator

RotIdle ==
    /\ UE5Rotation = NoRotator
    /\ ColmapQuat = NoQuat
    /\ RotationRoundTrip = NoRotator

ConvertRotationToColmapAct ==
    /\ UE5Rotation # NoRotator
    /\ ColmapQuat = NoQuat
    /\ ColmapQuat' = ConvertRotationToColmap(UE5Rotation)
    /\ UNCHANGED <<UE5Rotation, RotationRoundTrip>>

ConvertRotationFromColmapAct ==
    /\ ColmapQuat # NoQuat
    /\ RotationRoundTrip = NoRotator
    /\ RotationRoundTrip' = ConvertRotationFromColmap(ColmapQuat)
    /\ UNCHANGED <<UE5Rotation, ColmapQuat>>

RotNext ==
    \/ ConvertRotationToColmapAct /\ UNCHANGED rotRest
    \/ ConvertRotationFromColmapAct /\ UNCHANGED rotRest

-----------------------------------------------------------------------------
(* FColmapWriter: the dataset directory and its files *)

\* Largest number of WriteColmapDataset calls on one file system.
MaxDatasetWrites == 2

\* A directory path is the sequence of its components; OutputDir / TEXT("x")
\* appends a component.
Prefixes(Dir) == {SubSeq(Dir, 1, k) : k \in 1..Len(Dir)}

DatasetDirs(OutputDir) ==
    <<OutputDir,
      OutputDir \o <<"sparse">>,
      OutputDir \o <<"sparse", "0">>,
      OutputDir \o <<"images">>,
      OutputDir \o <<"depth">>>>

\* The loop of CreateDirectoryStructure over Dirs. existing is the set of
\* directories, failing the directories CreateDirectoryTree cannot create.
RECURSIVE CreateDirectories(_, _, _)
CreateDirectories(Dirs, existing, failing) ==
    IF Dirs = <<>> THEN [ok |-> TRUE, dirs |-> existing]
    ELSE IF Head(Dirs) \in existing THEN CreateDirectories(Tail(Dirs), existing, failing)
    ELSE IF Head(Dirs) \in failing THEN [ok |-> FALSE, dirs |-> existing]
    ELSE CreateDirectories(Tail(Dirs), existing \cup Prefixes(Head(Dirs)), failing)

CreateDirectoryStructure(existing, OutputDir, failing) ==
    CreateDirectories(DatasetDirs(OutputDir), existing, failing)

ColmapFile(dir, name, ext) == [dir |-> dir, name |-> name, ext |-> ext]

\* FFileHelper::SaveStringToFile / SaveArrayToFile at the end of each writer:
\* failing holds the file names whose save fails.
SaveFile(files, file, failing) ==
    [ok |-> file.name \notin failing,
     files |-> IF file.name \in failing THEN files ELSE files \cup {file}]

Attempt(name, ok) == [name |-> name, ok |-> ok]

Outcome(ret, dirs, files, attempted) ==
    [ret |-> ret, dirs |-> dirs, files |-> files, attempted |-> attempted]

WriteColmapDataset_IgnoresImages(existing, files, OutputDir, bBinary, dirFail, fileFail) ==
    LET D == CreateDirectoryStructure(existing, OutputDir, dirFail)
        SparseDir == OutputDir \o <<"sparse", "0">>
        Extension == IF bBinary THEN ".bin" ELSE ".txt"
        C == SaveFile(files, ColmapFile(SparseDir, "cameras", Extension), fileFail)
        I == SaveFile(C.files, ColmapFile(SparseDir, "images", Extension), fileFail)
        P == SaveFile(I.files, ColmapFile(SparseDir, "points3D", Extension), fileFail)
    IN  IF ~D.ok THEN Outcome(FALSE, D.dirs, files, <<>>)
        ELSE IF ~C.ok THEN Outcome(FALSE, D.dirs, C.files, <<Attempt("cameras", FALSE)>>)
        ELSE IF ~P.ok
             THEN Outcome(FALSE, D.dirs, P.files,
                          <<Attempt("cameras", TRUE), Attempt("images", I.ok),
                            Attempt("points3D", FALSE)>>)
        ELSE Outcome(TRUE, D.dirs, P.files,
                     <<Attempt("cameras", TRUE), Attempt("images", I.ok),
                       Attempt("points3D", TRUE)>>)

\* WriteColmapDataset: the return value, the file system afterwards and the
\* writes attempted, in order, each with its result.
WriteColmapDataset(existing, files, OutputDir, bBinary, dirFail, fileFail) ==
    LET D == CreateDirectoryStructure(existing, OutputDir, dirFail)
        SparseDir == OutputDir \o <<"sparse", "0">>
        Extension == IF bBinary THEN ".bin" ELSE ".txt"
        C == SaveFile(files, ColmapFile(SparseDir, "cameras", Extension), fileFail)
        I == SaveFile(C.files, ColmapFile(SparseDir, "images", Extension), fileFail)
        P == SaveFile(I.files, ColmapFile(SparseDir, "points3D", Extension), fileFail)
    IN  IF ~D.ok THEN Outcome(FALSE, D.dirs, files, <<>>)
        ELSE IF ~C.ok THEN Outcome(FALSE, D.dirs, C.files, <<Attempt("cameras", FALSE)>>)
        ELSE IF ~I.ok
             THEN Outcome(FALSE, D.dirs, I.files,
                          <<Attempt("cameras", TRUE), Attempt("images", FALSE)>>)
        ELSE IF ~P.ok
             THEN Outcome(FALSE, D.dirs, P.files,
                          <<Attempt("cameras", TRUE), Attempt("images", TRUE),
                            Attempt("points3D", FALSE)>>)
        ELSE Outcome(TRUE, D.dirs, P.files,
                     <<Attempt("cameras", TRUE), Attempt("images", TRUE),
                       Attempt("points3D", TRUE)>>)

OutputDirs == {<<"out">>, <<"Saved", "capture">>}

DatasetDirSet(OutputDir) ==
    {DatasetDirs(OutputDir)[k] : k \in 1..Len(DatasetDirs(OutputDir))}

\* File systems a call can start from: empty, only the root, or a complete
\* dataset tree, possibly holding a cameras.txt of an earlier export.
InitialDirs == {{}, {<<"out">>}, DatasetDirSet(<<"out">>)}

StaleFile == ColmapFile(<<"out", "sparse", "0">>, "cameras", ".txt")

NoCall ==
    [OutputDir |-> <<>>, bBinary |-> FALSE, ret |-> FALSE, attempted |-> <<>>,
     filesBefore |-> {}]

DsInit ==
    /\ fsDirs \in InitialDirs
    /\ fsFiles \in (IF StaleFile.dir \in fsDirs THEN {{}, {StaleFile}} ELSE {{}})
    /\ dsCall = NoCall
    /\ dsCalls = 0

DsIdle ==
    /\ fsDirs = {}
    /\ fsFiles = {}
    /\ dsCall = NoCall
    /\ dsCalls = 0

WriteColmapDatasetAct ==
    /\ dsCalls < MaxDatasetWrites
    /\ \E OutputDir \in OutputDirs, bBinary \in BOOLEAN :
       \E dirFail \in SUBSET DatasetDirSet(OutputDir),
          fileFail \in SUBSET {"cameras", "images", "points3D"} :
          LET r == WriteColmapDataset(fsDirs, fsFiles, OutputDir, bBinary, dirFail, fileFail)
          IN  /\ fsDirs' = r.dirs
              /\ fsFiles' = r.files
              /\ dsCall' = [OutputDir |-> OutputDir, bBinary |-> bBinary, ret |-> r.ret,
                            attempted |-> r.attempted, filesBefore |-> fsFiles]
    /\ dsCalls' = dsCalls + 1

DsNext ==
    \/ WriteColmapDatasetAct /\ UNCHANGED dsRest

-----------------------------------------------------------------------------
(* UCaptureOrchestrator *)

\* Largest number of viewpoints of a capture run.
MaxRunViewpoints == 2

ECaptureState ==
    {"Idle", "Preparing", "Capturing", "Processing", "Exporting", "Complete", "Error"}

\* Pointers are TRUE when they point to an object and FALSE when null.
\* CaptureDelay is in milliseconds.
FCaptureConfig(dir, format, delay, depth, ply, trajectory) ==
    [OutputDirectory |-> dir,
     ImageWidth |-> 1920,
     ImageHeight |-> 1080,
     FieldOfView |-> 90,
     TrajectoryConfig |-> trajectory,
     bCaptureDepth |-> depth,
     bExportPointCloud |-> ply,
     ImageFormat |-> format,
     bUseBinaryColmap |-> FALSE,
     CaptureDelay |-> delay]

DefaultCaptureConfig ==
    FCaptureConfig("", "JPEG", 100, TRUE, TRUE, FTrajectoryConfig("Orbital", <<5, 36, 500, 60>>, 0))

FCaptureResult ==
    [bSuccess |-> FALSE, FramesCaptured |-> 0, DepthMapsCaptured |-> 0, OutputPath |-> "",
     Errors |-> <<>>, Warnings |-> <<>>]

\* The orchestrator as one record, for the member functions below.
Orchestrator ==
    [CurrentState |-> CurrentState,
     CurrentViewpointIndex |-> CurrentViewpointIndex,
     Viewpoints |-> Viewpoints,
     ActiveConfig |-> ActiveConfig,
     Result |-> Result,
     CaptureWorld |-> CaptureWorld,
     SceneCaptureComponent |-> SceneCaptureComponent,
     DepthCaptureComponent |-> DepthCaptureComponent,
     ColorRenderTarget |-> ColorRenderTarget,
     DepthRenderTarget |-> DepthRenderTarget,
     CaptureTimerHandle |-> CaptureTimerHandle,
     SavedImages |-> SavedImages,
     ExportedImages |-> ExportedImages,
     Broadcasts |-> Broadcasts,
     Transitions |-> <<>>,
     crashed |-> crashed]

\* CurrentState = s, logged with the index and the viewpoint count at that point.
SetState(o, s) ==
    [o EXCEPT !.CurrentState = s,
              !.Transitions = Append(@, [from |-> o.CurrentState, to |-> s,
                                         index |-> o.CurrentViewpointIndex,
                                         count |-> Len(o.Viewpoints)])]

Broadcast(o, event, ok, frame) ==
    [o EXCEPT !.Broadcasts = Append(@, [event |-> event, ok |-> ok, frame |-> frame])]

AddError(o, text) == [o EXCEPT !.Result.Errors = Append(@, text)]

AddWarning(o, text) == [o EXCEPT !.Result.Warnings = Append(@, text)]

Cleanup(o) ==
    [o EXCEPT !.SceneCaptureComponent = FALSE,
              !.DepthCaptureComponent = IF o.SceneCaptureComponent THEN FALSE ELSE @,
              !.ColorRenderTarget = FALSE,
              !.DepthRenderTarget = FALSE,
              !.CaptureWorld = FALSE]

\* SetupSceneCapture after a successful SpawnActor.
SetupSceneCapture(o) ==
    [o EXCEPT !.SceneCaptureComponent = TRUE,
              !.ColorRenderTarget = TRUE,
              !.DepthCaptureComponent = IF o.ActiveConfig.bCaptureDepth THEN TRUE ELSE @,
              !.DepthRenderTarget = IF o.ActiveConfig.bCaptureDepth THEN TRUE ELSE @]

\* if (CaptureWorld && CaptureTimerHandle.IsValid()) ClearTimer(CaptureTimerHandle)
ClearTimer(o) ==
    IF o.CaptureWorld /\ o.CaptureTimerHandle THEN [o EXCEPT !.CaptureTimerHandle = FALSE] ELSE o

ImageExtension(Config) == IF Config.ImageFormat = "JPEG" THEN JpgExtension ELSE PngExtension

\* ExportColmapData and, when enabled, ExportPointCloud: the image records
\* built for the export and the warnings of failed writes.
ExportData(o, colmapOk, plyOk) ==
    LET o1 == [o EXCEPT !.ExportedImages =
                   CreateImagesFromViewpoints(o.Viewpoints, <<"i", "m", "a", "g", "e", "_">>,
                                              ImageExtension(o.ActiveConfig))]
        o2 == IF colmapOk THEN o1 ELSE AddWarning(o1, "Failed to export some COLMAP data")
    IN  IF o.ActiveConfig.bExportPointCloud /\ ~plyOk
        THEN AddWarning(o2, "Failed to export point cloud")
        ELSE o2

\* The branch of ProcessNextFrame taken once every viewpoint was processed.
FinishCapture(o, colmapOk, plyOk) ==
    LET o1 == SetState(ClearTimer(o), "Exporting")
        o2 == ExportData(o1, colmapOk, plyOk)
        o3 == SetState(o2, "Complete")
        o4 == [o3 EXCEPT !.Result.bSuccess = (o3.Result.Errors = <<>>)]
    IN  Broadcast(Cleanup(o4), "Complete", o4.Result.bSuccess, 0)

\* A saved image is counted twice.
CaptureFrame_CountsTwice(o, saveFail, depthFail) ==
    LET i == o.CurrentViewpointIndex
        name == <<"i", "m", "a", "g", "e", "_">> \o FormatImageIndex(i, 5)
                    \o ImageExtension(o.ActiveConfig)
        saved == i \notin saveFail
        o1 == [o EXCEPT !.SavedImages =
                   Append(@, [Index |-> i, Name |-> name,
                              Dir |-> o.ActiveConfig.OutputDirectory, ok |-> saved])]
        o2 == IF saved THEN [o1 EXCEPT !.Result.FramesCaptured = @ + 2]
              ELSE Broadcast(o1, "Error", FALSE, i)
        o3 == IF o.ActiveConfig.bCaptureDepth /\ o.DepthCaptureComponent /\ i \notin depthFail
              THEN [o2 EXCEPT !.Result.DepthMapsCaptured = @ + 1]
              ELSE o2
    IN  [Broadcast(o3, "Progress", TRUE, i + 1) EXCEPT !.CurrentViewpointIndex = i + 1]

\* The capture of viewpoint CurrentViewpointIndex: color image, depth map,
\* progress broadcast, index increment. saveFail and depthFail hold the indices
\* whose image save and depth extraction fail.
CaptureFrame(o, saveFail, depthFail) ==
    LET i == o.CurrentViewpointIndex
        name == <<"i", "m", "a", "g", "e", "_">> \o FormatImageIndex(i, 5)
                    \o ImageExtension(o.ActiveConfig)
        saved == i \notin saveFail
        o1 == [o EXCEPT !.SavedImages =
                   Append(@, [Index |-> i, Name |-> name,
                              Dir |-> o.ActiveConfig.OutputDirectory, ok |-> saved])]
        o2 == IF saved THEN [o1 EXCEPT !.Result.FramesCaptured = @ + 1]
              ELSE Broadcast(o1, "Error", FALSE, i)
        o3 == IF o.ActiveConfig.bCaptureDepth /\ o.DepthCaptureComponent /\ i \notin depthFail
              THEN [o2 EXCEPT !.Result.DepthMapsCaptured = @ + 1]
              ELSE o2
    IN  [Broadcast(o3, "Progress", TRUE, i + 1) EXCEPT !.CurrentViewpointIndex = i + 1]

\* ProcessNextFrame. Calling through the null SceneCaptureComponent or
\* ColorRenderTarget ends the process.
RECURSIVE ProcessNextFrame(_, _, _, _, _)
ProcessNextFrame(o, saveFail, depthFail, colmapOk, plyOk) ==
    IF o.CurrentState # "Capturing" THEN o
    ELSE IF o.CurrentViewpointIndex >= Len(o.Viewpoints) THEN FinishCapture(o, colmapOk, plyOk)
    ELSE IF ~o.SceneCaptureComponent \/ ~o.ColorRenderTarget THEN [o EXCEPT !.crashed = TRUE]
    ELSE LET o1 == CaptureFrame(o, saveFail, depthFail)
         IN  IF o1.ActiveConfig.CaptureDelay <= 0 /\ o1.CurrentViewpointIndex < Len(o1.Viewpoints)
             THEN ProcessNextFrame(o1, saveFail, depthFail, colmapOk, plyOk)
             ELSE o1

Returned(ret, o) == [ret |-> ret, o |-> o]

\* StartCapture once the state check and the world check have passed.
\* spawnOk: SpawnActor succeeds in SetupSceneCapture; dirsOk:
\* CreateDirectoryStructure succeeds. The result of ValidateConfig is only logged.
\* The configurations of a run are Custom trajectories, for which
\* GenerateViewpoints is CustomViewpoints.
BeginCapture(o, World, Config, spawnOk, dirsOk, saveFail, depthFail) ==
    LET o1 == [o EXCEPT !.ActiveConfig = Config,
                        !.CaptureWorld = World,
                        !.Result = [FCaptureResult EXCEPT !.OutputPath = Config.OutputDirectory],
                        !.CurrentViewpointIndex = 0,
                        !.SavedImages = <<>>,
                        !.ExportedImages = <<>>,
                        !.Broadcasts = <<>>]
        o2 == [SetState(o1, "Preparing") EXCEPT
                  !.Viewpoints = CustomViewpoints(Config.TrajectoryConfig)]
        o3 == SetupSceneCapture(o2)
        o4 == SetState(o3, "Capturing")
    IN  IF Len(o2.Viewpoints) = 0
        THEN Returned(FALSE, AddError(SetState(o2, "Error"), "Failed to generate camera viewpoints"))
        ELSE IF ~spawnOk
        THEN Returned(FALSE, AddError(SetState(o2, "Error"),
                                      "Failed to setup scene capture components"))
        ELSE IF ~dirsOk
        THEN Returned(FALSE, Cleanup(AddError(SetState(o3, "Error"),
                                              "Failed to create output directories")))
        ELSE IF Config.CaptureDelay > 0
        THEN Returned(TRUE, [o4 EXCEPT !.CaptureTimerHandle = TRUE])
        ELSE Returned(TRUE, ProcessNextFrame(o4, saveFail, depthFail, TRUE, TRUE))

StartCapture_FromAnyRestingState(o, World, Config, spawnOk, dirsOk, saveFail, depthFail) ==
    IF o.CurrentState \notin {"Idle", "Complete", "Error"} THEN Returned(FALSE, o)
    ELSE IF ~World THEN Returned(FALSE, o)
    ELSE BeginCapture(o, World, Config, spawnOk, dirsOk, saveFail, depthFail)

StartCapture(o, World, Config, spawnOk, dirsOk, saveFail, depthFail) ==
    IF o.CurrentState # "Idle" THEN Returned(FALSE, o)
    ELSE IF ~World THEN Returned(FALSE, o)
    ELSE BeginCapture(o, World, Config, spawnOk, dirsOk, saveFail, depthFail)

\* The state is left as it is.
StopCapture_StateKept(o) ==
    IF o.CurrentState = "Idle" THEN o
    ELSE LET o1 == [ClearTimer(o) EXCEPT !.Result.bSuccess = FALSE]
             o2 == AddError(o1, "Capture cancelled by user")
         IN  Broadcast(Cleanup(o2), "Complete", FALSE, 0)

StopCapture(o) ==
    IF o.CurrentState = "Idle" THEN o
    ELSE LET o1 == [ClearTimer(o) EXCEPT !.Result.bSuccess = FALSE]
             o2 == SetState(AddError(o1, "Capture cancelled by user"), "Idle")
         IN  Broadcast(Cleanup(o2), "Complete", FALSE, 0)

\* CaptureSingleFrame; it does not look at CurrentState. saveOk: the preview
\* image is saved.
CaptureSingleFrame(o, World, Config, spawnOk, saveOk) ==
    IF ~World THEN Returned(FALSE, o)
    ELSE LET o1 == [o EXCEPT !.CaptureWorld = World, !.ActiveConfig = Config]
         IN  IF ~spawnOk THEN Returned(FALSE, Cleanup(o1))
             ELSE Returned(saveOk, Cleanup(SetupSceneCapture(o1)))

\* GetCaptureProgress: the float quotient, 0 without viewpoints.
GetCaptureProgress(o) ==
    IF Len(o.Viewpoints) = 0 THEN F(0)
    ELSE FDiv(F(o.CurrentViewpointIndex), F(Len(o.Viewpoints)))

CustomTrajectory(n) == FTrajectoryConfig("Custom", <<5, 36, 500, 60>>, n)

\* Configurations handed to StartCapture: timer-driven and immediate, both
\* image formats, with and without depth maps and point cloud.
RunConfigs ==
    {FCaptureConfig("/tmp/out", c[1], c[2], c[3], c[4], CustomTrajectory(n)) :
        c \in {<<"JPEG", 100, TRUE, TRUE>>, <<"PNG", 100, FALSE, FALSE>>,
               <<"JPEG", 0, FALSE, TRUE>>, <<"PNG", 0, TRUE, FALSE>>},
        n \in 0..MaxRunViewpoints}

\* Configurations handed to CaptureSingleFrame.
PreviewConfigs ==
    {FCaptureConfig("/tmp/preview", "PNG", 0, FALSE, FALSE, CustomTrajectory(0)),
     FCaptureConfig("/tmp/preview", "JPEG", 100, TRUE, TRUE, CustomTrajectory(0))}

NoLastCall == [op |-> "none", pre |-> "Idle", ret |-> FALSE]

Called(op, ret) == [op |-> op, pre |-> CurrentState, ret |-> ret]

\* The state after the constructor.
OrchInit ==
    /\ CurrentState = "Idle"
    /\ CurrentViewpointIndex = 0
    /\ Viewpoints = <<>>
    /\ ActiveConfig = DefaultCaptureConfig
    /\ Result = FCaptureResult
    /\ CaptureWorld = FALSE
    /\ SceneCaptureComponent = FALSE
    /\ DepthCaptureComponent = FALSE
    /\ ColorRenderTarget = FALSE
    /\ DepthRenderTarget = FALSE
    /\ CaptureTimerHandle = FALSE
    /\ SavedImages = <<>>
    /\ ExportedImages = <<>>
    /\ Broadcasts = <<>>
    /\ Transitions = <<>>
    /\ lastCall = NoLastCall
    /\ crashed = FALSE

Becomes(o) ==
    /\ CurrentState' = o.CurrentState
    /\ CurrentViewpointIndex' = o.CurrentViewpointIndex
    /\ Viewpoints' = o.Viewpoints
    /\ ActiveConfig' = o.ActiveConfig
    /\ Result' = o.Result
    /\ CaptureWorld' = o.CaptureWorld
    /\ SceneCaptureComponent' = o.SceneCaptureComponent
    /\ DepthCaptureComponent' = o.DepthCaptureComponent
    /\ ColorRenderTarget' = o.ColorRenderTarget
    /\ DepthRenderTarget' = o.DepthRenderTarget
    /\ CaptureTimerHandle' = o.CaptureTimerHandle
    /\ SavedImages' = o.SavedImages
    /\ ExportedImages' = o.ExportedImages
    /\ Broadcasts' = o.Broadcasts
    /\ Transitions' = o.Transitions
    /\ crashed' = o.crashed

\* Indices the next ProcessNextFrame call can capture under configuration Config.
PendingIndices(o, Config) ==
    IF o.CurrentState # "Capturing" \/ o.CurrentViewpointIndex >= Len(o.Viewpoints) THEN {}
    ELSE IF Config.CaptureDelay > 0 THEN {o.CurrentViewpointIndex}
    ELSE o.CurrentViewpointIndex..(Len(o.Viewpoints) - 1)

\* What the environment can answer to a call; only one answer is drawn where
\* the call does not ask.
Answers(asked) == IF asked THEN BOOLEAN ELSE {TRUE}

\* Failure sets drawn for a batch of frames: none fails, one fails, all fail.
FailureSets(frames) == {{}, frames} \cup {{i} : i \in frames}

StartCaptureAct ==
    /\ ~crashed
    /\ \E World \in BOOLEAN :
       \E Config \in IF CurrentState = "Idle" /\ World THEN RunConfigs
                      ELSE {FCaptureConfig("/tmp/out", "JPEG", 100, TRUE, TRUE, CustomTrajectory(1))} :
         LET accepted == CurrentState = "Idle" /\ World
         IN  \E setup \in IF accepted THEN {"ok", "no actor", "no directories"} ELSE {"ok"} :
               LET frames == IF accepted /\ setup = "ok" /\ Config.CaptureDelay <= 0
                             THEN 0..(Len(Config.TrajectoryConfig.CustomWaypoints) - 1)
                             ELSE {}
               IN  \E saveFail \in FailureSets(frames),
                      depthFail \in IF Config.bCaptureDepth THEN {{}, frames} ELSE {{}} :
                     \E r \in {StartCapture(Orchestrator, World, Config, setup # "no actor",
                                            setup # "no directories", saveFail, depthFail)} :
                        Becomes(r.o) /\ lastCall' = Called("StartCapture", r.ret)

\* The repeating timer set by StartCapture fires.
TimerTick ==
    /\ ~crashed
    /\ CaptureTimerHandle
    /\ \E saveFail \in FailureSets(PendingIndices(Orchestrator, ActiveConfig)),
          depthFail \in IF ActiveConfig.bCaptureDepth /\ DepthCaptureComponent
                        THEN {{}, PendingIndices(Orchestrator, ActiveConfig)} ELSE {{}},
          colmapOk \in Answers(CurrentState = "Capturing"
                                  /\ CurrentViewpointIndex >= Len(Viewpoints)),
          plyOk \in Answers(CurrentState = "Capturing"
                               /\ CurrentViewpointIndex >= Len(Viewpoints)
                               /\ ActiveConfig.bExportPointCloud) :
          \E o \in {ProcessNextFrame(Orchestrator, saveFail, depthFail, colmapOk, plyOk)} :
            Becomes(o) /\ lastCall' = Called("ProcessNextFrame", TRUE)

StopCaptureAct ==
    /\ ~crashed
    /\ \E o \in {StopCapture(Orchestrator)} :
          Becomes(o) /\ lastCall' = Called("StopCapture", TRUE)

CaptureSingleFrameAct ==
    /\ ~crashed
    /\ \E World \in BOOLEAN, Config \in PreviewConfigs :
         \E spawnOk \in Answers(World), saveOk \in Answers(World) :
         \E r \in {CaptureSingleFrame(Orchestrator, World, Config, spawnOk, saveOk)} :
            Becomes(r.o) /\ lastCall' = Called("CaptureSingleFrame", r.ret)

Next ==
    \/ StartCaptureAct /\ UNCHANGED orchRest
    \/ TimerTick /\ UNCHANGED orchRest
    \/ StopCaptureAct /\ UNCHANGED orchRest
    \/ CaptureSingleFrameAct /\ UNCHANGED orchRest

-----------------------------------------------------------------------------
(* Specifications of the components *)

\* The components other than the one a specification runs stay as constructed.
InitConv == ConvInit /\ CamIdle /\ PlyIdle /\ ImgIdle /\ ValIdle /\ DsIdle /\ OrchInit /\ RdIdle /\ VsIdle /\ TrajIdle /\ NpyIdle /\ DepthIdle /\ ShIdle /\ RotIdle

InitCameras == CamInit /\ ConvIdle /\ PlyIdle /\ ImgIdle /\ ValIdle /\ DsIdle /\ OrchInit /\ RdIdle /\ VsIdle /\ TrajIdle /\ NpyIdle /\ DepthIdle /\ ShIdle /\ RotIdle

InitPly == PlyInit /\ ConvIdle /\ CamIdle /\ ImgIdle /\ ValIdle /\ DsIdle /\ OrchInit /\ RdIdle /\ VsIdle /\ TrajIdle /\ NpyIdle /\ DepthIdle /\ ShIdle /\ RotIdle

InitImages == ImgInit /\ ConvIdle /\ CamIdle /\ PlyIdle /\ ValIdle /\ DsIdle /\ OrchInit /\ RdIdle /\ VsIdle /\ TrajIdle /\ NpyIdle /\ DepthIdle /\ ShIdle /\ RotIdle

InitValidate == ValInit /\ ConvIdle /\ CamIdle /\ PlyIdle /\ ImgIdle /\ DsIdle /\ OrchInit /\ RdIdle /\ VsIdle /\ TrajIdle /\ NpyIdle /\ DepthIdle /\ ShIdle /\ RotIdle

InitDataset == DsInit /\ ConvIdle /\ CamIdle /\ PlyIdle /\ ImgIdle /\ ValIdle /\ OrchInit /\ RdIdle /\ VsIdle /\ TrajIdle /\ NpyIdle /\ DepthIdle /\ ShIdle /\ RotIdle

Init == OrchInit /\ ConvIdle /\ CamIdle /\ PlyIdle /\ ImgIdle /\ ValIdle /\ DsIdle /\ RdIdle /\ VsIdle /\ TrajIdle /\ NpyIdle /\ DepthIdle /\ ShIdle /\ RotIdle

InitPlyRead == RdInit /\ ConvIdle /\ CamIdle /\ PlyIdle /\ ImgIdle /\ ValIdle /\ DsIdle /\ OrchInit /\ VsIdle /\ TrajIdle /\ NpyIdle /\ DepthIdle /\ ShIdle /\ RotIdle

InitValidateSplats == VsInit /\ ConvIdle /\ CamIdle /\ PlyIdle /\ ImgIdle /\ ValIdle /\ DsIdle /\ OrchInit /\ RdIdle /\ TrajIdle /\ NpyIdle /\ DepthIdle /\ ShIdle /\ RotIdle

InitTrajectory == TrajInit /\ ConvIdle /\ CamIdle /\ PlyIdle /\ ImgIdle /\ ValIdle /\ DsIdle /\ OrchInit /\ RdIdle /\ VsIdle /\ NpyIdle /\ DepthIdle /\ ShIdle /\ RotIdle

InitNpy == NpyInit /\ ConvIdle /\ CamIdle /\ PlyIdle /\ ImgIdle /\ ValIdle /\ DsIdle /\ OrchInit /\ RdIdle /\ VsIdle /\ TrajIdle /\ DepthIdle /\ ShIdle /\ RotIdle

InitDepth == DepthInit /\ ConvIdle /\ CamIdle /\ PlyIdle /\ ImgIdle /\ ValIdle /\ DsIdle /\ OrchInit /\ RdIdle /\ VsIdle /\ TrajIdle /\ NpyIdle /\ ShIdle /\ RotIdle

InitSh == ShInit /\ ConvIdle /\ CamIdle /\ PlyIdle /\ ImgIdle /\ ValIdle /\ DsIdle /\ OrchInit /\ RdIdle /\ VsIdle /\ TrajIdle /\ NpyIdle /\ DepthIdle /\ RotIdle

InitRot == RotInit /\ ConvIdle /\ CamIdle /\ PlyIdle /\ ImgIdle /\ ValIdle /\ DsIdle /\ OrchInit /\ RdIdle /\ VsIdle /\ TrajIdle /\ NpyIdle /\ DepthIdle /\ ShIdle

SpecConv == InitConv /\ [][ConvNext]_vars

SpecCameras == InitCameras /\ [][CamNext]_vars

SpecPly == InitPly /\ [][PlyNext]_vars

SpecImages == InitImages /\ [][ImgNext]_vars

SpecValidate == InitValidate /\ [][ValNext]_vars

SpecDataset == InitDataset /\ [][DsNext]_vars

\* The capture orchestrator, driven by its callers and its timer.
SpecPlyRead == InitPlyRead /\ [][RdNext]_vars

SpecValidateSplats == InitValidateSplats /\ [][VsNext]_vars

SpecTrajectory == InitTrajectory /\ [][TrajNext]_vars

SpecNpy == InitNpy /\ [][NpyNext]_vars

SpecDepth == InitDepth /\ [][DepthNext]_vars

SpecSh == InitSh /\ [][ShNext]_vars

SpecRot == InitRot /\ [][RotNext]_vars

Spec == Init /\ [][Next]_vars

\* A capture run left to itself: StopCapture and CaptureSingleFrame are not
\* called, and the repeating timer set by StartCapture keeps firing while
\* its handle is valid.
CaptureRunNext ==
    \/ StartCaptureAct /\ UNCHANGED orchRest
    \/ TimerTick /\ UNCHANGED orchRest

InitCaptureRun == Init

SpecCaptureRun ==
    InitCaptureRun /\ [][CaptureRunNext]_vars /\ WF_vars(TimerTick /\ UNCHANGED orchRest)

-----------------------------------------------------------------------------
(* Claims about the splat file size *)

\* limbs \div k by long division from the most significant limb: <<quotient, remainder>>
RECURSIVE DivInt64(_, _, _)
DivInt64(limbs, k, rem) ==
    IF limbs = <<>> THEN <<<<>>, rem>>
    ELSE LET cur == rem * Limb + limbs[Len(limbs)]
             rest == DivInt64(SubSeq(limbs, 1, Len(limbs) - 1), k, cur % k)
         IN  <<Append(rest[1], cur \div k), rest[2]>>

\* C2: for every non-empty array of N splats WriteGaussianBinary appends
\* exactly 236 bytes per splat after the header, so the payload is 236*N
\* bytes and equals EstimateMemoryUsage(N), which is exactly N*236 in 64 bits
\* for every non-negative int32 N.
C2_PayloadIs236PerSplat ==
    /\ plyData # NoBinary =>
          /\ ByteSize(plyData.Payload) = 236 * Len(Splats)
          /\ ToInt64(ByteSize(plyData.Payload)) = EstimateMemoryUsage(Len(Splats))
    /\ plyEstimate # NoEstimate =>
          DivInt64(plyEstimate.Bytes, 236, 0) = <<ToInt64(plyEstimate.NumSplats), 0>>

-----------------------------------------------------------------------------
(* Claims about the capture orchestrator *)

\* The state assignments a call may make, by the caller of the assignment.
AllowedTransition(t, op) ==
    \/ t.from = "Idle" /\ t.to = "Preparing" /\ op = "StartCapture"
    \/ t.from = "Preparing" /\ t.to = "Capturing"
    \/ t.from = "Preparing" /\ t.to = "Error"
    \/ t.from = "Capturing" /\ t.to = "Exporting" /\ t.index >= t.count
    \/ t.from = "Exporting" /\ t.to = "Complete"
    \/ t.from # "Idle" /\ t.to = "Idle" /\ op = "StopCapture"

\* The logged assignments lead from the state before the last call to the
\* current state.
TransitionsAreTheStateChange ==
    IF Transitions = <<>> THEN CurrentState = lastCall.pre
    ELSE /\ Transitions[1].from = lastCall.pre
         /\ \A k \in 1..(Len(Transitions) - 1) : Transitions[k + 1].from = Transitions[k].to
         /\ Transitions[Len(Transitions)].to = CurrentState

\* C8: the orchestrator starts in Idle and every state change it makes is one
\* of Idle->Preparing (StartCapture), Preparing->Capturing, Preparing->Error,
\* Capturing->Exporting (only once CurrentViewpointIndex has reached the
\* viewpoint count), Exporting->Complete, or non-Idle->Idle (StopCapture);
\* Processing is never entered, and StartCapture called in a non-Idle state
\* returns false without changing the state.
C8_StateMachine ==
    /\ lastCall = NoLastCall => CurrentState = "Idle"
    /\ TransitionsAreTheStateChange
    /\ \A k \in 1..Len(Transitions) : AllowedTransition(Transitions[k], lastCall.op)
    /\ CurrentState # "Processing"
    /\ (lastCall.op = "StartCapture" /\ lastCall.pre # "Idle") =>
          /\ ~lastCall.ret
          /\ Transitions = <<>>
          /\ CurrentState = lastCall.pre

\* A run went through the whole machine to Complete and a StartCapture call
\* made there was refused.
C8_Witness ==
    /\ lastCall = [op |-> "StartCapture", pre |-> "Complete", ret |-> FALSE]
    /\ CurrentState = "Complete"

\* C4: in a capture run of N viewpoints, the file name under which
\* ProcessNextFrame saves the color image of viewpoint i is identical to the
\* ImageName that ExportColmapData records for the image with ImageId i+1.
C4_SavedNameIsExportedName ==
    CurrentState = "Complete" =>
        /\ Len(ExportedImages) = Len(Viewpoints)
        /\ \A k \in 1..Len(SavedImages) :
              /\ SavedImages[k].Index + 1 \in 1..Len(ExportedImages)
              /\ ExportedImages[SavedImages[k].Index + 1].ImageId = SavedImages[k].Index + 1
              /\ ExportedImages[SavedImages[k].Index + 1].ImageName = SavedImages[k].Name

-----------------------------------------------------------------------------
(* Claims about the dataset directory *)

WriteOrder == <<"cameras", "images", "points3D">>

DatasetFile(name) ==
    ColmapFile(dsCall.OutputDir \o <<"sparse", "0">>, name,
               IF dsCall.bBinary THEN ".bin" ELSE ".txt")

\* C10: WriteColmapDataset returns true iff the directory structure was
\* created and the cameras, images and points3D files were all written; when
\* it returns true the directories root, sparse, sparse/0, images and depth
\* exist and the three files exist in sparse/0 with the extension selected by
\* bBinary; the files are attempted in the order cameras, images, points3D and
\* after the first failing step no later file is written.
C10_DatasetWritten ==
    dsCalls > 0 =>
        LET A == dsCall.attempted
            AllDirs == DatasetDirSet(dsCall.OutputDir) \subseteq fsDirs
            AllWritten == Len(A) = 3 /\ \A k \in 1..3 : A[k].ok
        IN  /\ dsCall.ret <=> (AllDirs /\ AllWritten)
            /\ dsCall.ret => \A k \in 1..3 : DatasetFile(WriteOrder[k]) \in fsFiles
            /\ Len(A) <= 3
            /\ \A k \in 1..Len(A) : A[k].name = WriteOrder[k]
            /\ \A k \in 1..Len(A) : ~A[k].ok => k = Len(A)
            /\ ~AllDirs => A = <<>>
            /\ \A k \in 1..3 :
                  (k > Len(A) \/ ~A[k].ok) =>
                      (DatasetFile(WriteOrder[k]) \in fsFiles
                          <=> DatasetFile(WriteOrder[k]) \in dsCall.filesBefore)

\* A successful binary export and a text export that stopped at the images file.
C10_Witness ==
    /\ dsCalls > 0
    /\ \/ dsCall.ret /\ dsCall.bBinary
       \/ /\ ~dsCall.ret
          /\ dsCall.attempted = <<Attempt("cameras", TRUE), Attempt("images", FALSE)>>
          /\ DatasetFile("points3D") \notin fsFiles

-----------------------------------------------------------------------------
(* Claims about configuration validation *)

InvalidConfiguration(Config) ==
    \/ Config.OutputDirectory = ""
    \/ Config.ImageWidth <= 0
    \/ Config.ImageHeight <= 0
    \/ /\ Config.TrajectoryConfig.TrajectoryType = "Custom"
       /\ Len(Config.TrajectoryConfig.CustomWaypoints) < 3

\* C9: UCaptureOrchestrator::ValidateConfig returns false for every invalid
\* configuration (empty OutputDirectory, ImageWidth or ImageHeight zero or
\* negative, Custom trajectory with fewer than 3 waypoints) and true, possibly
\* with warnings, for every other configuration.
C9_ValidateConfigRejectsInvalid ==
    valResult.called => (valResult.bIsValid <=> ~InvalidConfiguration(valConfig))

-----------------------------------------------------------------------------
(* Claims about the image records *)

\* C3: for N viewpoints CreateImagesFromViewpoints returns exactly N images in
\* viewpoint order; the image at 0-based position i has ImageId i+1 and
\* CameraId 1, and the ImageNames are pairwise distinct.
C3_ImagesFromViewpoints ==
    imgPc = "created" =>
        /\ Len(Images) = Len(imgViewpoints)
        /\ \A k \in 1..Len(Images) :
              /\ Images[k].ImageId = (k - 1) + 1
              /\ Images[k].CameraId = 1
              /\ Images[k].Viewpoint = imgViewpoints[k].ViewpointId
        /\ \A j, k \in 1..Len(Images) :
              j # k => Images[j].ImageName # Images[k].ImageName

\* A call on the long trajectory, whose last index has two digits.
C3_Witness ==
    /\ imgPc = "created"
    /\ Len(Images) = LongTrajectory
    /\ Images[LongTrajectory].ImageId = LongTrajectory

-----------------------------------------------------------------------------
(* Claims about the camera model table and the camera files *)

\* The COLMAP camera model table: name, model id, number of parameters.
ColmapModelTable ==
    {<<"SIMPLE_PINHOLE", 0, 3>>, <<"PINHOLE", 1, 4>>, <<"SIMPLE_RADIAL", 2, 4>>,
     <<"RADIAL", 3, 5>>, <<"OPENCV", 4, 8>>, <<"FULL_OPENCV", 6, 12>>}

\* C5: for every camera model, GetColmapModelId, GetColmapModelName and
\* GetColmapParamsString agree with the COLMAP table: the name and id are
\* one row of the table and the parameter string splits on blanks into
\* exactly that row's number of tokens.
C5_ModelTable ==
    camQuery # NoQuery =>
        <<camQuery.ModelName, camQuery.ModelId, Len(ParseIntoArray(camQuery.Params))>>
            \in ColmapModelTable

C5_Witness ==
    /\ camQuery # NoQuery
    /\ camQuery.ModelName = "FULL_OPENCV"
    /\ Len(ParseIntoArray(camQuery.Params)) = 12

\* The value a token of the parameter string denotes.
TokenValue(p) == IF p.k = "%.10f" THEN p.v ELSE 0

TableArity(id) == (CHOOSE row \in ColmapModelTable : row[2] = id)[3]

\* The camera record the COLMAP binary format prescribes: the 24-byte prefix,
\* then one double per token of the text parameter string.
ExpectedCameraRecord(Cam) ==
    LET toks == ParseIntoArray(GetColmapParamsString(Cam.Intrinsics))
    IN  <<Field("u32", Cam.CameraId),
          Field("i32", Cam.Intrinsics.CameraModel),
          Field("u64", Cam.Intrinsics.Width),
          Field("u64", Cam.Intrinsics.Height)>>
        \o [i \in 1..Len(toks) |-> Field("f64", TokenValue(toks[i]))]

\* C1: for each of the six camera models WriteCamerasBinary writes, after
\* the 24-byte prefix (u32 id, i32 model id, u64 width, u64 height), exactly
\* the model's arity of doubles, holding the ordered fields that
\* GetColmapParamsString emits for that model.
C1_BinaryParamsMatchText ==
    camData # <<>> =>
        /\ camData = <<Field("u64", Len(Cameras))>>
                     \o Flatten([i \in 1..Len(Cameras) |-> ExpectedCameraRecord(Cameras[i])])
        /\ ByteSize(camData) =
              8 + SeqSum([i \in 1..Len(Cameras) |->
                            24 + 8 * TableArity(Cameras[i].Intrinsics.CameraModel)])

-----------------------------------------------------------------------------
(* Claims about the position conversion *)

\* a = b * (k/100), stated on numerators and denominators
IsHundredthOf(a, b) == a.n * 100 * b.d = b.n * a.d

\* C6: ConvertPositionToColmap returns (y, -z, x) scaled by 0.01: engine +X
\* goes to COLMAP +Z, engine +Y to COLMAP +X, engine +Z to COLMAP -Y, and the
\* origin goes to the origin.
C6_PositionToColmap ==
    convPc \in {"colmap", "roundtrip"} =>
        /\ IsHundredthOf(ColmapPosition.X, UE5Position.Y)
        /\ IsHundredthOf(ColmapPosition.Y, RNeg(UE5Position.Z))
        /\ IsHundredthOf(ColmapPosition.Z, UE5Position.X)
        /\ (UE5Position = NoVector => ColmapPosition = NoVector)

C6_Witness ==
    /\ convPc = "colmap"
    /\ UE5Position.X = Rat(100, 1)
    /\ UE5Position.Z.n > 0
    /\ UE5Position.Y.n < 0
    /\ ColmapPosition.Z = Rat(1, 1)
    /\ ColmapPosition.Y.n < 0

Tolerance == Rat(1, 100)

Near(a, b) == RLeq(RAbs(RSub(a, b)), Tolerance)

\* C7: ConvertPositionFromColmap(ConvertPositionToColmap(p)) equals p on each
\* axis within 0.01 engine units.
C7_PositionRoundTrip ==
    convPc = "roundtrip" =>
        /\ Near(RoundTrip.X, UE5Position.X)
        /\ Near(RoundTrip.Y, UE5Position.Y)
        /\ Near(RoundTrip.Z, UE5Position.Z)

C7_Witness ==
    /\ convPc = "roundtrip"
    /\ UE5Position.X.n > 0
    /\ UE5Position.Y.n < 0
    /\ UE5Position.Z.n > 0
    /\ UE5Position.X # UE5Position.Z

-----------------------------------------------------------------------------
(* Reading PLY files *)

\* The file read is a written point-cloud file that then lost its first
\* line, its vertex count, or the end of its binary payload.
MalformedPointCloudFile ==
    /\ plyOrigin.op = "WritePointCloud"
    /\ \/ plyOrigin.damage \in {"not ply", "zero vertices", "no vertex count"}
       \/ plyOrigin.damage = "truncated" /\ plyOrigin.bBinary

\* C11: ReadPointCloud never reads a byte outside the loaded file, and for a
\* file whose first line is not "ply", whose vertex count is zero or missing,
\* or whose binary payload is shorter than the vertex count times the record
\* size, it returns false.
C11_ReadPointCloudStaysInFile ==
    plyRead.op = "ReadPointCloud" =>
        /\ plyRead.Overrun = 0
        /\ plyRead.returned
        /\ MalformedPointCloudFile => ~plyRead.ret

\* |r - w| <= 2^-24 |w|, for r a float read back and w the double written.
NearFloat32(w, r) ==
    /\ w.d % r.d = 0
    /\ Abs(r.n * (w.d \div r.d) - w.n) <= Abs(w.n) \div 2^24
    /\ BitLen(Abs(r.n)) <= 24

\* |r - w| <= 0.0000005, for r a "%.6f" text read back and w the double written.
NearSixDecimals(w, r) == RLeq(RAbs(RSub(r, w)), Rat(1, 2 * 10^6))

SameStoredVector(W, R, bBinary) ==
    \A c \in {"X", "Y", "Z"} :
        IF bBinary THEN NearFloat32(W[c], R[c]) ELSE NearSixDecimals(W[c], R[c])

WrittenThenRead ==
    /\ plyOrigin.op = "WritePointCloud"
    /\ plyOrigin.damage = "none"
    /\ plyRead.op = "ReadPointCloud"

C13_GaussianRoundTrip ==
    (plyOrigin.op = "WriteGaussianSplats" /\ plyRead.op = "ReadGaussianSplats") =>
        /\ plyRead.ret
        /\ Len(plyRead.OutSplats) = Len(rdSplats)
        /\ \A i \in 1..Len(rdSplats) :
              /\ plyRead.OutSplats[i].Position = rdSplats[i].Position
              /\ plyRead.OutSplats[i].SH_DC = rdSplats[i].SH_DC
              /\ RestSHValues(plyRead.OutSplats[i]) = RestSHValues(rdSplats[i])
              /\ plyRead.OutSplats[i].Opacity = rdSplats[i].Opacity
              /\ plyRead.OutSplats[i].Scale = rdSplats[i].Scale
              /\ plyRead.OutSplats[i].Rotation = rdSplats[i].Rotation

-----------------------------------------------------------------------------
(* Validating splats *)

NonFinitePosition(Splat) ==
    \E c \in {"X", "Y", "Z"} : Splat.Position[c].k # "finite"

\* C14: ValidateSplats counts every splat with a NaN or infinite position
\* component in the "invalid positions" warning and returns false exactly
\* when there is such a splat or the array is empty; opacity, scale, rotation
\* and the splat count only add warnings.
C14_ValidateSplatsFlagsNonFinite ==
    vsResult.called =>
        LET bad == Counted(vsSplats, NonFinitePosition)
        IN  /\ bad > 0 =>
                  \E i \in 1..Len(vsResult.OutWarnings) :
                      vsResult.OutWarnings[i] =
                          Warning("%d splats have invalid positions", <<bad>>)
            /\ vsResult.ret = ~(bad > 0 \/ Num(vsSplats) = 0)

-----------------------------------------------------------------------------
(* Trajectory generation *)

\* The viewpoints of a generation from a configuration of the given type
\* with at least one ring and one view per ring.
Generated(type) ==
    /\ genResult.generated
    /\ genConfig.TrajectoryType = type
    /\ genConfig.NumRings >= 1
    /\ genConfig.ViewsPerRing >= 1

\* C15: an Orbital generation with NumRings >= 1 and ViewsPerRing >= 1 gives
\* exactly NumRings * ViewsPerRing viewpoints, ring by ring: the viewpoint
\* at 0-based position p has ViewpointId p and RingIndex p / ViewsPerRing,
\* so that each ring index labels ViewsPerRing consecutive viewpoints.
C15_OrbitalRingByRing ==
    Generated("Orbital") =>
        LET VP == genResult.Viewpoints
        IN  /\ Len(VP) = genConfig.NumRings * genConfig.ViewsPerRing
            /\ \A k \in 1..Len(VP) :
                  /\ VP[k].ViewpointId = k - 1
                  /\ VP[k].RingIndex = (k - 1) \div genConfig.ViewsPerRing

C15_Witness ==
    /\ Generated("Orbital")
    /\ genConfig.NumRings >= 2
    /\ genConfig.ViewsPerRing >= 2
    /\ genResult.Viewpoints[Len(genResult.Viewpoints)].RingIndex = genConfig.NumRings - 1

\* A float lies in [lo, hi].
Within(f, lo, hi) == IsFinite(f) /\ RLeq(lo, f.v) /\ RLeq(f.v, hi)

\* C16: every viewpoint of a Hemisphere generation has its ElevationAngle
\* within [max(0, MinElevation), min(85, MaxElevation)] and not below 0,
\* for MinElevation and MaxElevation in [-89, 89] and NumRings >= 1.
C16_HemisphereElevation ==
    Generated("Hemisphere") =>
        LET lo == IF genConfig.MinElevation > 0 THEN genConfig.MinElevation ELSE 0
            hi == IF genConfig.MaxElevation < 85 THEN genConfig.MaxElevation ELSE 85
        IN  \A k \in 1..Len(genResult.Viewpoints) :
              /\ Within(genResult.Viewpoints[k].ElevationAngle, Rat(lo, 1), Rat(hi, 1))
              /\ Within(genResult.Viewpoints[k].ElevationAngle, RZero, Rat(90, 1))

\* C17: for every trajectory type but Custom, the Distance of every
\* generated viewpoint equals BaseRadius when the radius variation is
\* disabled and lies within BaseRadius * (1 -+ RadiusVariation) when it is
\* enabled.
C17_DistanceIsRadius ==
    (genResult.generated /\ genConfig.TrajectoryType # "Custom") =>
        LET R == Rat(genConfig.BaseRadius, 1)
            lo == RMul(R, RSub(Rat(1, 1), genConfig.RadiusVariation))
            hi == RMul(R, RAdd(Rat(1, 1), genConfig.RadiusVariation))
        IN  \A k \in 1..Len(genResult.Viewpoints) :
              LET Distance == genResult.Viewpoints[k].Distance
                  b == RadiusBounds(Distance)
              IN  /\ RadiusIsFinite(Distance)
                  /\ IF genConfig.bVaryRadiusPerRing
                     THEN RLeq(lo, b[1]) /\ RLeq(b[2], hi)
                     ELSE b = <<R, R>>

\* C18: for every generating trajectory type, with NumRings >= 1,
\* ViewsPerRing >= 1 and BaseRadius > 0, every component of the position
\* and of the rotation of every viewpoint is finite (no division by zero
\* reaches them), in particular for Panoramic360 with ViewsPerRing = 1 and
\* for Spherical with NumRings * ViewsPerRing = 1.
C18_ViewpointsAreFinite ==
    (/\ Generated(genConfig.TrajectoryType)
     /\ genConfig.TrajectoryType # "Custom"
     /\ genConfig.BaseRadius > 0) =>
        \A k \in 1..Len(genResult.Viewpoints) :
            /\ PositionIsFinite(genResult.Viewpoints[k].Position)
            /\ RotationIsFinite(genResult.Viewpoints[k].Rotation)

\* clamp(ceil(range / step), lo, hi) over the reals, where a step of 0
\* makes the quotient exceed every bound.
ClampedSteps(range, step, lo, hi) ==
    IF step.n = 0 THEN hi ELSE Clamp(Ceil(RDiv(Rat(range, 1), step)), lo, hi)

\* C19: for every bounding box, DesiredOverlap in [0, 1] and HorizontalFOV
\* in (0, 180), CalculateOptimalConfig returns an Orbital configuration with
\* ViewsPerRing = clamp(ceil(360 / (FOV * (1 - overlap))), 12, 72),
\* NumRings = clamp(ceil(90 / (FOV * 9 / 16 * (1 - overlap))), 3, 8), and
\* ring staggering, radius variation and look-at enabled.
C19_OptimalConfig ==
    optResult # NoOptimalConfig =>
        LET rest == RSub(Rat(1, 1), optInput.DesiredOverlap.v)
            AngularStep == RMul(optInput.HorizontalFOV.v, rest)
            VerticalAngularStep == RMul(RMul(optInput.HorizontalFOV.v, Rat(9, 16)), rest)
        IN  /\ optResult.TrajectoryType = "Orbital"
            /\ optResult.ViewsPerRing = ClampedSteps(360, AngularStep, 12, 72)
            /\ optResult.NumRings = ClampedSteps(90, VerticalAngularStep, 3, 8)
            /\ optResult.bStaggerRings
            /\ optResult.bVaryRadiusPerRing
            /\ optResult.bLookAtFocusPoint

-----------------------------------------------------------------------------
(* The .npy header *)

\* C20: for Width >= 1 and Height >= 1 the bytes returned by
\* CreateNPYHeader start with 0x93 'N' 'U' 'M' 'P' 'Y' and version 1.0,
\* their number is a multiple of 64, the little-endian 16-bit length field
\* equals the number of dictionary bytes after it, and the last dictionary
\* byte is a newline.
C20_NpyHeader ==
    npyHeader # <<>> =>
        /\ SubSeq(npyHeader, 1, 8) = <<147, 78, 85, 77, 80, 89, 1, 0>>
        /\ Len(npyHeader) % 64 = 0
        /\ npyHeader[9] + 256 * npyHeader[10] = Len(npyHeader) - 10
        /\ npyHeader[Len(npyHeader)] = 10

C20_Witness ==
    /\ npyHeader # <<>>
    /\ npyWidth = 2147483647
    /\ npyHeight = 1080
    /\ Len(npyHeader) = 128
    /\ SubSeq(npyHeader, 62, 77) = <<49, 48, 56, 48, 44, 32, 50, 49, 52, 55, 52, 56, 51, 54, 52, 55>>

-----------------------------------------------------------------------------
(* Linear depth *)

\* lo <= f <= hi on floats.
Between(f, lo, hi) == ~IsNaN(f) /\ ~FLessWide(f, lo) /\ ~FLessWide(hi, f)

\* w is the float nearest to the positive rational r: they differ by at
\* most 2^-24 of r.
NearestFloat(w, r) ==
    LET ratio == RDiv(w, r)
    IN  Abs(ratio.n - ratio.d) <= ratio.d \div 2^24

\* C21: for 0 < near <= far, SceneDepthToLinear returns exactly near for a
\* scene depth d >= 1, exactly far for d <= 0, and for 0 < d < 1 the
\* quotient near / d (as a float) clamped to [near, far]; the result always
\* lies in [near, far].
C21_SceneDepthToLinear ==
    (/\ LinearDepth # NoDepth
     /\ FLessWide(F(0), NearPlane)
     /\ ~FLessWide(FarPlane, NearPlane)) =>
        /\ Between(LinearDepth, NearPlane, FarPlane)
        /\ Between(SceneDepth, F(1), PlusInf) => LinearDepth = NearPlane
        /\ Between(SceneDepth, MinusInf, F(0)) => LinearDepth = FarPlane
        /\ (FLess(F(0), SceneDepth) /\ FLess(SceneDepth, F(1))) =>
              LET q == RDiv(NearPlane.v, SceneDepth.v)
              IN  IF IsFinite(FarPlane) /\ ~RLessWide(q, FarPlane.v)
                  THEN LinearDepth = FarPlane
                  ELSE IsFinite(LinearDepth) /\ NearestFloat(LinearDepth.v, q)

\* The quotient 10 / (3 / 8) is no float and is rounded; it lies inside
\* the planes.
C21_Witness ==
    /\ LinearDepth # NoDepth
    /\ NearPlane = F(10)
    /\ FarPlane = F(1000)
    /\ SceneDepth = Finite(Rat(3, 8))
    /\ LinearDepth = Finite(Rat(13981013, 2^19))

-----------------------------------------------------------------------------
(* Colours and SH DC coefficients *)

\* C22: a colour converted by ColorToSH_DC and back by SH_DCToColor
\* differs from the original by at most 1 on each of R, G and B, for every
\* channel value in 0..255; and SH_DCToColor yields channels in 0..255 for
\* any SH input, 0 below the range and 255 above it.
C22_ColorRoundTrip ==
    shRecovered # NoShColor =>
        /\ {shRecovered.R, shRecovered.G, shRecovered.B} \subseteq 0..255
        /\ shColor # NoShColor =>
              /\ Abs(shRecovered.R - shColor.R) <= 1
              /\ Abs(shRecovered.G - shColor.G) <= 1
              /\ Abs(shRecovered.B - shColor.B) <= 1
        /\ shColor = NoShColor =>
              /\ shDC.X.k = "-inf" \/ (shDC.X.k = "finite" /\ shDC.X.hi <= -2 * Unit)
                    => shRecovered.R = 0
              /\ shDC.X.k = "+inf" \/ (shDC.X.k = "finite" /\ shDC.X.lo >= 2 * Unit)
                    => shRecovered.R = 255

C22_Witness ==
    /\ shColor = [R |-> 128, G |-> 213, B |-> 127, A |-> 255]
    /\ shRecovered # NoShColor
    /\ shRecovered.R \in {127, 128}

-----------------------------------------------------------------------------
(* Rotation round trip *)

\* Two angles differ by at most 1 degree modulo 360: the cosine of their
\* difference is at least cos(1 degree) < 0.99985.
WithinOneDegree(a, b) == RLeq(Rat(99985, 100000), RAdd(RMul(a.c, b.c), RMul(a.s, b.s)))

SameRotator(A, B) ==
    /\ WithinOneDegree(A.Pitch, B.Pitch)
    /\ WithinOneDegree(A.Yaw, B.Yaw)
    /\ WithinOneDegree(A.Roll, B.Roll)

-----------------------------------------------------------------------------
(* Expected and generated viewpoint counts *)

\* C30: for NumRings >= 1 and ViewsPerRing >= 2, GetExpectedViewpointCount
\* equals the number of viewpoints GenerateViewpoints returns for Orbital,
\* Hemisphere, Spiral, Panoramic360 and Custom (one viewpoint per waypoint, in
\* order), and is an upper bound on it for Spherical.
C30_ExpectedCount ==
    (genResult.generated /\ genConfig.NumRings >= 1 /\ genConfig.ViewsPerRing >= 2) =>
        LET ReturnedCount == Len(genResult.Viewpoints)
            ExpectedCount == GetExpectedViewpointCount(genConfig)
            TrajectoryType == genConfig.TrajectoryType
        IN  /\ TrajectoryType \in {"Orbital", "Hemisphere", "Spiral", "Panoramic360", "Custom"} =>
                  ReturnedCount = ExpectedCount
            /\ TrajectoryType = "Custom" =>
                  \A k \in 1..ReturnedCount :
                      genResult.Viewpoints[k].Position = genConfig.CustomWaypoints[k]
            /\ TrajectoryType = "Spherical" => ReturnedCount <= ExpectedCount

\* A Spiral of two rings gives 3 * ViewsPerRing viewpoints, not
\* NumRings * ViewsPerRing, when the two differ.
C30_Witness ==
    /\ genResult.generated
    /\ genConfig.TrajectoryType = "Spiral"
    /\ genConfig.NumRings = 2
    /\ genConfig.ViewsPerRing = 3
    /\ Len(genResult.Viewpoints) = 9

-----------------------------------------------------------------------------
(* Capture runs *)

StartCaptureAccepted == lastCall.op = "StartCapture" /\ lastCall.ret

CompleteBroadcast ==
    /\ CurrentState = "Complete"
    /\ \E k \in 1..Len(Broadcasts) : Broadcasts[k].event = "Complete"

\* C24: after StartCapture returns true, if StopCapture is never called, the
\* orchestrator eventually reaches Complete and broadcasts OnCaptureComplete,
\* both with the repeating timer (CaptureDelay > 0) and with the synchronous
\* frames of CaptureDelay <= 0.
C24_EventuallyComplete == StartCaptureAccepted ~> CompleteBroadcast

\* The timer-driven half of C24.
C24_TimerRunCompletes ==
    (StartCaptureAccepted /\ ActiveConfig.CaptureDelay > 0) ~> CompleteBroadcast

\* C25: under every interleaving of StartCapture, timer ticks, StopCapture
\* and CaptureSingleFrame, whenever ProcessNextFrame runs in state Capturing
\* with CurrentViewpointIndex < Viewpoints.Num(), SceneCaptureComponent and
\* ColorRenderTarget are not null: the timer never finds the components of a
\* running capture destroyed, and no call goes through a null pointer.
C25_ComponentsAlive ==
    /\ (CaptureTimerHandle /\ CurrentState = "Capturing"
            /\ CurrentViewpointIndex < Len(Viewpoints)) =>
          (SceneCaptureComponent /\ ColorRenderTarget)
    /\ ~crashed

\* The OnCaptureComplete broadcasts since the last accepted StartCapture.
CompleteBroadcasts == {k \in 1..Len(Broadcasts) : Broadcasts[k].event = "Complete"}

\* C26: for each StartCapture call that returns true, OnCaptureComplete is
\* broadcast at most once before the next StartCapture call is accepted:
\* once by ProcessNextFrame on reaching Complete or once with false by
\* StopCapture, never both.
C26_CompleteAtMostOnce == Cardinality(CompleteBroadcasts) <= 1

\* What a run has captured, saved and exported.
runOutput ==
    <<CurrentViewpointIndex, SavedImages, ExportedImages, Result.FramesCaptured,
      Result.DepthMapsCaptured>>

Cancelled(R) ==
    /\ ~R.bSuccess
    /\ R.Errors # <<>>
    /\ R.Errors[Len(R.Errors)] = "Capture cancelled by user"

\* One step, judged by the call that made it.
StopCaptureStep ==
    /\ (lastCall'.op = "StopCapture" /\ CurrentState = "Capturing") =>
         (CurrentState' = "Idle" /\ Cancelled(Result'))
    /\ (lastCall'.op = "StopCapture" /\ CurrentState = "Idle") =>
         UNCHANGED <<CurrentState, CurrentViewpointIndex, Viewpoints, ActiveConfig, Result,
                     CaptureWorld, SceneCaptureComponent, DepthCaptureComponent,
                     ColorRenderTarget, DepthRenderTarget, CaptureTimerHandle,
                     SavedImages, ExportedImages, Broadcasts>>
    /\ (CurrentState = "Idle" /\ lastCall'.op # "StartCapture") =>
         (CurrentState' = "Idle" /\ UNCHANGED runOutput)

\* C27: StopCapture called in state Capturing makes the state Idle with
\* Result.bSuccess false and a cancellation error recorded, and from then on,
\* until a StartCapture call begins another run, no viewpoint is captured, no
\* image or depth file saved and nothing exported (a later ProcessNextFrame
\* returns without effect); StopCapture called in state Idle changes nothing
\* and broadcasts nothing.
C27_StopCapture == [][StopCaptureStep]_vars

\* A run was stopped after its first frame while its timer could not be
\* cleared, and the timer has fired since.
C27_Witness ==
    /\ lastCall = [op |-> "ProcessNextFrame", pre |-> "Idle", ret |-> TRUE]
    /\ CurrentState = "Idle"
    /\ Cancelled(Result)
    /\ CurrentViewpointIndex = 1
    /\ Len(Viewpoints) = 2
    /\ Len(SavedImages) = 1
    /\ ExportedImages = <<>>

Warned(text) == \E k \in 1..Len(Result.Warnings) : Result.Warnings[k] = text

\* C28: whenever a run reaches Complete with Result.bSuccess true, the color
\* image of every viewpoint was saved (Result.FramesCaptured =
\* Viewpoints.Num()) and the COLMAP export, and the point-cloud export when
\* enabled, succeeded.
C28_SuccessMeansAllSaved ==
    (CurrentState = "Complete" /\ Result.bSuccess) =>
        /\ Result.FramesCaptured = Len(Viewpoints)
        /\ \A k \in 1..Len(SavedImages) : SavedImages[k].ok
        /\ ~Warned("Failed to export some COLMAP data")
        /\ ~Warned("Failed to export point cloud")

\* The CurrentFrame values of the OnCaptureProgress broadcasts of the run.
ProgressFrames ==
    LET P == SelectSeq(Broadcasts, LAMBDA b : b.event = "Progress")
    IN  [k \in 1..Len(P) |-> P[k].frame]

OrchestratorCounters ==
    /\ 0 <= CurrentViewpointIndex
    /\ CurrentViewpointIndex <= Len(Viewpoints)
    /\ Result.FramesCaptured <= CurrentViewpointIndex
    /\ Result.DepthMapsCaptured <= CurrentViewpointIndex
    /\ LET Progress == GetCaptureProgress(Orchestrator)
       IN  /\ IsFinite(Progress)
           /\ RLeq(RZero, Progress.v)
           /\ RLeq(Progress.v, Rat(1, 1))
           /\ Len(Viewpoints) = 0 => Progress = F(0)
    /\ ProgressFrames = [k \in 1..Len(ProgressFrames) |-> k]
    /\ Len(ProgressFrames) <= Len(Viewpoints)

\* C29: in every reachable state 0 <= CurrentViewpointIndex <=
\* Viewpoints.Num(), FramesCaptured and DepthMapsCaptured are at most
\* CurrentViewpointIndex and GetCaptureProgress() is within [0, 1] (0 without
\* viewpoints); within a run CurrentViewpointIndex never decreases and
\* OnCaptureProgress is broadcast with CurrentFrame = 1, 2, ..., N in
\* increasing order, each value at most once.
C29_IndexAndProgress ==
    /\ []OrchestratorCounters
    /\ [][lastCall'.op # "StartCapture" => CurrentViewpointIndex' >= CurrentViewpointIndex]_vars

\* A run of two viewpoints was captured to the end; the image of one of
\* them could not be saved.
C29_Witness ==
    /\ CurrentViewpointIndex = 2
    /\ Len(Viewpoints) = 2
    /\ Result.FramesCaptured = 1
    /\ ProgressFrames = <<1, 2>>
    /\ GetCaptureProgress(Orchestrator) = F(1)

=============================================================================
